------------------------ MODULE ContextProtocolProofs ------------------------
(***************************************************************************)
(* The discipline of ContextProtocol keeps Context::current equal to the   *)
(* set of visible typedef names, for every set of identifiers and nesting  *)
(* depth.                                                                  *)
(*                                                                         *)
(* CurrentIsVisible is not inductive by itself: leaving a scope makes an    *)
(* old snapshot current, and a function body makes a parameter list        *)
(* current that was left earlier.  So the invariant also says that every   *)
(* live snapshot is right for its own level, that snapshots and scopes     *)
(* match one to one, and that the remembered list was right for the file   *)
(* scope it was read in.                                                   *)
(***************************************************************************)
EXTENDS ContextProtocol, ScopesTheorems

\* What was recorded when the list was left stays as it is.
ParamsRecorded ==
  params # NoParams =>
    /\ Types(params.scope) = {}
    /\ params.ctx = Visible(<<params.file, params.scope>>)

ContextAgrees ==
  /\ OneSnapshotPerScope
  /\ CurrentIsVisible
  /\ SnapshotsAreVisible
  /\ ParamsRecorded

IInv == TypeOK /\ ContextAgrees

LEMMA NoParamsIsNot == NoParams \notin ParamList
  BY IdsAssumption DEF NoParams, ParamList

LEMMA InitEstablishes == Init => IInv
<1> SUFFICES ASSUME Init PROVE IInv
  OBVIOUS
<1>1. scopes \in Seq(Scope) /\ Len(scopes) = 1
  BY NoDeclarationsIsScope DEF Init
<1>2. TypeOK
  BY <1>1, MaxDepthAssumption DEF Init, TypeOK
<1>3. OneSnapshotPerScope /\ SnapshotsAreVisible /\ ParamsRecorded
  BY <1>1 DEF Init, OneSnapshotPerScope, SnapshotsAreVisible, ParamsRecorded
<1>4. CurrentIsVisible
  <2>1. ASSUME NEW id \in Ids, NEW j \in 1..1 PROVE ~TypeAt(scopes, 1, j, id)
    BY DEF Init, TypeAt, NoDeclarations
  <2> QED
    BY <1>1, <2>1 DEF Init, CurrentIsVisible, Visible, VisibleTypes
<1> QED
  BY <1>2, <1>3, <1>4 DEF IInv, ContextAgrees

\* A declaration leaves the outer scopes alone.
LEMMA DeclareKeepsOuter ==
  ASSUME IInv, NEW id \in Ids, NEW kind \in {"type", "other"},
         scopes' = Declare(scopes, id, kind)
  PROVE  /\ scopes' \in Seq(Scope)
         /\ Len(scopes') = Len(scopes)
         /\ \A k \in 1..(Len(scopes) - 1) : scopes'[k] = scopes[k]
         /\ \A k \in 1..(Len(scopes) - 1) :
              VisibleTypes(scopes', k) = VisibleTypes(scopes, k)
<1>1. scopes \in Seq(Scope) /\ Len(scopes) \in Nat /\ Len(scopes) > 0
  BY DEF IInv, TypeOK
<1>2. /\ scopes' \in Seq(Scope)
      /\ Len(scopes') = Len(scopes)
      /\ \A k \in 1..(Len(scopes) - 1) : scopes'[k] = scopes[k]
      /\ scopes'[Len(scopes)] = [scopes[Len(scopes)] EXCEPT ![id] = kind]
  <2>1. kind \in Kind
    BY DEF Kind
  <2> QED
    BY <1>1, <2>1, DeclareTop
<1>3. ASSUME NEW k \in 1..(Len(scopes) - 1)
      PROVE  VisibleTypes(scopes', k) = VisibleTypes(scopes, k)
  <2>1. k \in Nat /\ k <= Len(scopes) /\ k <= Len(scopes')
    BY <1>1, <1>2
  <2>2. \A j \in 1..k : scopes'[j] = scopes[j]
    BY <1>1, <1>2
  <2> QED
    BY <1>1, <1>2, <2>1, <2>2, VisibleLocal
<1> QED
  BY <1>2, <1>3

LEMMA EnterScopePreserves == IInv /\ EnterScope => IInv'
<1> SUFFICES ASSUME IInv, EnterScope PROVE IInv'
  OBVIOUS
<1> USE NoDeclarationsIsScope
<1>1. /\ scopes \in Seq(Scope) /\ Len(scopes) \in 1..MaxDepth
      /\ saved \in Seq(SUBSET Ids) /\ current \in SUBSET Ids
      /\ Len(scopes) = Len(saved) + 1
  BY DEF IInv, TypeOK, ContextAgrees, OneSnapshotPerScope
<1>2. /\ scopes' \in Seq(Scope) /\ Len(scopes') = Len(scopes) + 1
      /\ scopes'[1] = scopes[1]
  BY <1>1 DEF EnterScope, Enter
<1>3. /\ saved' \in Seq(SUBSET Ids) /\ Len(saved') = Len(saved) + 1
      /\ \A k \in 1..Len(saved) : saved'[k] = saved[k]
      /\ saved'[Len(saved) + 1] = current
  BY <1>1 DEF EnterScope, save_context
<1>4. TypeOK'
  BY <1>1, <1>2, <1>3, MaxDepthAssumption DEF EnterScope, IInv, TypeOK
<1>5. OneSnapshotPerScope'
  BY <1>1, <1>2, <1>3 DEF OneSnapshotPerScope
<1>6. CurrentIsVisible'
  BY <1>1, EnterEmptyKeepsVisible DEF EnterScope, IInv, ContextAgrees, CurrentIsVisible
<1>7. SnapshotsAreVisible'
  <2> SUFFICES ASSUME NEW k \in 1..(Len(saved) + 1)
               PROVE  saved'[k] = VisibleTypes(scopes', k)
    BY <1>3 DEF SnapshotsAreVisible
  <2>1. k \in 1..Len(scopes) /\ VisibleTypes(scopes', k) = VisibleTypes(scopes, k)
    BY <1>1, EnterKeepsOuter DEF EnterScope
  <2>2. CASE k = Len(saved) + 1
    BY <1>1, <1>3, <2>1, <2>2 DEF IInv, ContextAgrees, CurrentIsVisible, Visible
  <2>3. CASE k # Len(saved) + 1
    BY <1>1, <1>3, <2>1, <2>3 DEF IInv, ContextAgrees, SnapshotsAreVisible
  <2> QED
    BY <2>2, <2>3
<1>8. ParamsRecorded'
  BY <1>2 DEF EnterScope, IInv, ContextAgrees, ParamsRecorded
<1> QED
  BY <1>4, <1>5, <1>6, <1>7, <1>8 DEF IInv, ContextAgrees

\* Leaving a scope: all but the parameter list, which the two ways differ in.
LEMMA LeavingPreserves ==
  ASSUME IInv, Len(saved) > 0,
         current' = saved[Len(saved)],
         saved' = SubSeq(saved, 1, Len(saved) - 1),
         scopes' = Leave(scopes)
  PROVE  /\ current' \in SUBSET Ids
         /\ saved' \in Seq(SUBSET Ids)
         /\ scopes' \in Seq(Scope) /\ Len(scopes') \in 1..MaxDepth
         /\ scopes'[1] = scopes[1]
         /\ OneSnapshotPerScope' /\ CurrentIsVisible' /\ SnapshotsAreVisible'
<1>1. /\ scopes \in Seq(Scope) /\ Len(scopes) \in 1..MaxDepth
      /\ saved \in Seq(SUBSET Ids) /\ current \in SUBSET Ids
      /\ Len(scopes) = Len(saved) + 1 /\ Len(saved) \in Nat
  BY DEF IInv, TypeOK, ContextAgrees, OneSnapshotPerScope
<1>2. Len(scopes) > 1
  BY <1>1
<1>3. /\ scopes' \in Seq(Scope)
      /\ Len(scopes') = Len(scopes) - 1
      /\ \A j \in 1..(Len(scopes) - 1) : scopes'[j] = scopes[j]
      /\ \A k \in 1..(Len(scopes) - 1) :
           VisibleTypes(scopes', k) = VisibleTypes(scopes, k)
  BY <1>1, <1>2, LeaveKeepsOuter
<1>4. /\ saved' \in Seq(SUBSET Ids)
      /\ Len(saved') = Len(saved) - 1
      /\ \A k \in 1..(Len(saved) - 1) : saved'[k] = saved[k]
  BY <1>1, DropLast
<1>5. current' \in SUBSET Ids
  BY <1>1
<1>6. Len(scopes') \in 1..MaxDepth /\ scopes'[1] = scopes[1]
  BY <1>1, <1>2, <1>3, MaxDepthAssumption
<1>7. OneSnapshotPerScope'
  BY <1>1, <1>3, <1>4 DEF OneSnapshotPerScope
<1>8. \A k \in 1..Len(saved) : saved[k] = VisibleTypes(scopes', k)
  BY <1>1, <1>3 DEF IInv, ContextAgrees, SnapshotsAreVisible
<1>9. CurrentIsVisible'
  BY <1>1, <1>3, <1>8 DEF CurrentIsVisible, Visible
<1>10. SnapshotsAreVisible'
  BY <1>1, <1>4, <1>8 DEF SnapshotsAreVisible
<1> QED
  BY <1>3, <1>4, <1>5, <1>6, <1>7, <1>9, <1>10

LEMMA LeaveScopePreserves == IInv /\ LeaveScope => IInv'
<1> SUFFICES ASSUME IInv, LeaveScope PROVE IInv'
  OBVIOUS
<1>1. /\ current' \in SUBSET Ids /\ saved' \in Seq(SUBSET Ids)
      /\ scopes' \in Seq(Scope) /\ Len(scopes') \in 1..MaxDepth
      /\ scopes'[1] = scopes[1]
      /\ OneSnapshotPerScope' /\ CurrentIsVisible' /\ SnapshotsAreVisible'
  BY LeavingPreserves DEF LeaveScope, restore_context
<1>2. params' = params
  BY DEF LeaveScope
<1>3. ParamsRecorded'
  BY <1>1, <1>2 DEF IInv, ContextAgrees, ParamsRecorded
<1>4. TypeOK'
  BY <1>1, <1>2 DEF IInv, TypeOK
<1> QED
  BY <1>1, <1>3, <1>4 DEF IInv, ContextAgrees

LEMMA LeaveParamsPreserves ==
  ASSUME IInv, NEW fn \in Ids, LeaveParams(fn) PROVE IInv'
<1>1. saved \in Seq(SUBSET Ids) /\ Len(saved) = 1 /\ Len(scopes) = 2
  BY DEF LeaveParams, IInv, TypeOK, ContextAgrees, OneSnapshotPerScope
<1>2. scopes \in Seq(Scope) /\ scopes[1] \in Scope /\ scopes[2] \in Scope
      /\ scopes = <<scopes[1], scopes[2]>>
  BY <1>1 DEF IInv, TypeOK
<1>3. saved' = SubSeq(saved, 1, Len(saved) - 1)
  BY <1>1 DEF LeaveParams
<1>4. /\ current' \in SUBSET Ids /\ saved' \in Seq(SUBSET Ids)
      /\ scopes' \in Seq(Scope) /\ Len(scopes') \in 1..MaxDepth
      /\ scopes'[1] = scopes[1]
      /\ OneSnapshotPerScope' /\ CurrentIsVisible' /\ SnapshotsAreVisible'
  BY <1>1, <1>3, LeavingPreserves DEF LeaveParams, restore_context
<1>5. params' = [ctx |-> current, scope |-> scopes[2], file |-> scopes[1], fn |-> fn]
  BY <1>1 DEF LeaveParams, ListOf, save_context
<1>6. params' \in ParamList
  BY <1>2, <1>5 DEF ParamList, IInv, TypeOK
<1>7. Types(scopes[2]) = {}
  BY <1>1 DEF LeaveParams
<1>8. current = Visible(<<scopes[1], scopes[2]>>)
  BY <1>1, <1>2 DEF IInv, ContextAgrees, CurrentIsVisible
<1>9. ParamsRecorded'
  BY <1>4, <1>5, <1>7, <1>8 DEF ParamsRecorded
<1>10. TypeOK'
  BY <1>4, <1>6 DEF TypeOK
<1> QED
  BY <1>4, <1>9, <1>10 DEF IInv, ContextAgrees

\* The two declarations differ only in what they do to the declared name.
LEMMA DeclaringPreserves ==
  ASSUME IInv, NEW id \in Ids, NEW kind \in {"type", "other"},
         scopes' = Declare(scopes, id, kind),
         current' = IF kind = "type" THEN current \cup {id} ELSE current \ {id},
         params' = params, saved' = saved
  PROVE  IInv'
<1>1. /\ scopes \in Seq(Scope) /\ Len(scopes) \in 1..MaxDepth /\ Len(scopes) > 0
      /\ saved \in Seq(SUBSET Ids) /\ current \in SUBSET Ids
      /\ Len(scopes) = Len(saved) + 1
  BY DEF IInv, TypeOK, ContextAgrees, OneSnapshotPerScope
<1>2. /\ scopes' \in Seq(Scope) /\ Len(scopes') = Len(scopes)
      /\ \A k \in 1..(Len(scopes) - 1) :
           VisibleTypes(scopes', k) = VisibleTypes(scopes, k)
  BY DeclareKeepsOuter
<1>3. ParamsRecorded' /\ params' \in ParamList \cup {NoParams}
  BY DEF IInv, TypeOK, ContextAgrees, ParamsRecorded
<1>4. TypeOK'
  BY <1>1, <1>2, <1>3 DEF TypeOK
<1>5. OneSnapshotPerScope'
  BY <1>1, <1>2 DEF OneSnapshotPerScope
<1>6. CurrentIsVisible'
  <2>1. current = Visible(scopes)
    BY DEF IInv, ContextAgrees, CurrentIsVisible
  <2> QED
    BY <1>1, <2>1, DeclareChangesOne DEF CurrentIsVisible
<1>7. SnapshotsAreVisible'
  BY <1>1, <1>2 DEF IInv, ContextAgrees, SnapshotsAreVisible
<1> QED
  BY <1>3, <1>4, <1>5, <1>6, <1>7 DEF IInv, ContextAgrees

LEMMA DeclareTypePreserves ==
  ASSUME IInv, NEW id \in Ids, DeclareType(id) PROVE IInv'
  BY DeclaringPreserves DEF DeclareType, declare_typedefname

LEMMA DeclareVarPreserves ==
  ASSUME IInv, NEW id \in Ids, DeclareVar(id) PROVE IInv'
  BY DeclaringPreserves DEF DeclareVar, declare_varname

LEMMA ForgetParamsPreserves == IInv /\ ForgetParams => IInv'
<1> SUFFICES ASSUME IInv, ForgetParams PROVE IInv'
  OBVIOUS
<1> USE DEF ForgetParams, IInv, ContextAgrees
<1>1. TypeOK'
  BY DEF TypeOK
<1>2. OneSnapshotPerScope' /\ CurrentIsVisible' /\ SnapshotsAreVisible'
  BY DEF OneSnapshotPerScope, CurrentIsVisible, SnapshotsAreVisible
<1>3. ParamsRecorded'
  BY DEF ParamsRecorded
<1> QED
  BY <1>1, <1>2, <1>3

\* As long as the function is all that was declared since, the list fits.
LEMMA RecordedFits == IInv => ParamsFitFileScope
<1> SUFFICES ASSUME IInv, params # NoParams, FitsFileScope
             PROVE  /\ Types(params.scope) = {}
                    /\ params.ctx \ {params.fn} =
                         Visible(<<scopes[1], params.scope>>) \ {params.fn}
  BY DEF ParamsFitFileScope
<1>1. params \in ParamList /\ scopes[1] \in Scope
  BY DEF IInv, TypeOK
<1>2. /\ Types(params.scope) = {}
      /\ params.ctx = Visible(<<params.file, params.scope>>)
  BY DEF IInv, ContextAgrees, ParamsRecorded
<1>3. \A x \in Ids : x # params.fn => scopes[1][x] = params.file[x]
  BY DEF FitsFileScope
<1>4. Visible(<<scopes[1], params.scope>>) \ {params.fn} =
        Visible(<<params.file, params.scope>>) \ {params.fn}
  BY <1>1, <1>2, <1>3, OverFileScope DEF ParamList
<1> QED
  BY <1>2, <1>4

\* A function body starts with exactly the typedef names its reopened
\* parameter scope leaves visible.
LEMMA ReinstalledIsVisible ==
  ASSUME IInv, EnterBody
  PROVE  current' = Visible(<<scopes[1], params.scope>>)
<1>1. params \in ParamList /\ params # NoParams
  BY DEF EnterBody, IInv, TypeOK
<1>2. scopes[1] \in Scope /\ params.scope \in Scope /\ params.fn \in Ids
  BY <1>1 DEF IInv, TypeOK, ParamList
<1>3. /\ Types(params.scope) = {}
      /\ params.ctx \ {params.fn} =
           Visible(<<scopes[1], params.scope>>) \ {params.fn}
  BY <1>1, RecordedFits DEF EnterBody, ParamsFitFileScope
<1>4. params.fn \notin Visible(<<scopes[1], params.scope>>)
  BY <1>2, <1>3, OverFileScope DEF EnterBody
<1> QED
  BY <1>3, <1>4 DEF EnterBody, Reinstalled, declare_varname, restore_context

LEMMA EnterBodyPreserves == IInv /\ EnterBody => IInv'
<1> SUFFICES ASSUME IInv, EnterBody PROVE IInv'
  OBVIOUS
<1>1. /\ scopes \in Seq(Scope) /\ Len(scopes) = 1 /\ saved = <<>>
      /\ current \in SUBSET Ids /\ params \in ParamList
  BY DEF EnterBody, IInv, TypeOK, ContextAgrees, OneSnapshotPerScope
<1>2. params.scope \in Scope /\ params.ctx \in SUBSET Ids
  BY <1>1 DEF ParamList
<1>3. /\ scopes' \in Seq(Scope) /\ Len(scopes') = 2
      /\ scopes' = <<scopes[1], params.scope>>
  <2>1. scopes' = Enter(scopes, params.scope)
    BY DEF EnterBody
  <2>2. LET tt == Enter(scopes, params.scope)
        IN  /\ tt \in Seq(Scope) /\ Len(tt) = Len(scopes) + 1
            /\ \A j \in 1..Len(scopes) : tt[j] = scopes[j]
            /\ tt[Len(scopes) + 1] = params.scope
    BY <1>1, <1>2, EnterTop
  <2>3. /\ scopes' \in Seq(Scope) /\ Len(scopes') = 2
        /\ scopes'[1] = scopes[1] /\ scopes'[2] = params.scope
    BY <1>1, <2>1, <2>2
  <2> QED
    BY <2>3, PairOfScopes
<1>4. saved' = <<current>>
  BY <1>1 DEF EnterBody, save_context
<1>5. TypeOK'
  <2>1. current' \in SUBSET Ids
    BY <1>2 DEF EnterBody, Reinstalled, declare_varname, restore_context
  <2>2. Len(scopes') \in 1..MaxDepth
    BY <1>1, <1>3, MaxDepthAssumption DEF EnterBody
  <2> QED
    BY <1>1, <1>3, <1>4, <2>1, <2>2 DEF EnterBody, TypeOK
<1>6. OneSnapshotPerScope'
  BY <1>3, <1>4 DEF OneSnapshotPerScope
<1>7. CurrentIsVisible'
  BY <1>3, ReinstalledIsVisible DEF CurrentIsVisible
<1>8. SnapshotsAreVisible'
  <2>1. VisibleTypes(scopes', 1) = VisibleTypes(scopes, 1)
    <3>1. 1 \in 1..Len(scopes) /\ scopes' = Enter(scopes, params.scope)
      BY <1>1 DEF EnterBody
    <3> QED
      BY <1>1, <1>2, <3>1, EnterKeepsOuter
  <2>2. current = VisibleTypes(scopes, 1)
    BY <1>1 DEF IInv, ContextAgrees, CurrentIsVisible, Visible
  <2> QED
    BY <1>4, <2>1, <2>2 DEF SnapshotsAreVisible
<1>9. ParamsRecorded'
  BY DEF EnterBody, ParamsRecorded
<1> QED
  BY <1>5, <1>6, <1>7, <1>8, <1>9 DEF IInv, ContextAgrees

LEMMA NextPreserves == IInv /\ [Next]_vars => IInv'
<1> SUFFICES ASSUME IInv, [Next]_vars PROVE IInv'
  OBVIOUS
<1>1. CASE EnterScope
  BY <1>1, EnterScopePreserves
<1>2. CASE LeaveScope
  BY <1>2, LeaveScopePreserves
<1>3. CASE \E fn \in Ids : LeaveParams(fn)
  BY <1>3, LeaveParamsPreserves
<1>4. CASE \E id \in Ids : DeclareType(id)
  BY <1>4, DeclareTypePreserves
<1>5. CASE \E id \in Ids : DeclareVar(id)
  BY <1>5, DeclareVarPreserves
<1>6. CASE ForgetParams
  BY <1>6, ForgetParamsPreserves
<1>7. CASE EnterBody
  BY <1>7, EnterBodyPreserves
<1>8. CASE UNCHANGED vars
  BY <1>8 DEF vars, IInv, TypeOK, ContextAgrees, OneSnapshotPerScope,
              CurrentIsVisible, SnapshotsAreVisible, ParamsRecorded
<1> QED
  BY <1>1, <1>2, <1>3, <1>4, <1>5, <1>6, <1>7, <1>8 DEF Next

\* The inductive invariant holds throughout.
THEOREM Invariance == Spec => []IInv
  BY InitEstablishes, NextPreserves, PTL DEF Spec

\* Every state of the protocol is well typed and within its depth bound.
THEOREM TypeCorrect == Spec => []TypeOK
<1>1. IInv => TypeOK
  BY DEF IInv
<1> QED
  BY <1>1, Invariance, PTL

\* Whatever is declared in whatever scopes, the set the lexer consults is
\* the set of typedef names C11 makes visible (Context::current, context.h).
THEOREM CurrentAlwaysVisible == Spec => []CurrentIsVisible
<1>1. IInv => CurrentIsVisible
  BY DEF IInv, ContextAgrees
<1> QED
  BY <1>1, Invariance, PTL

\* No construct loses its snapshot or restores another's: there is one for every
\* open scope but the innermost (the scoped_* rules and function_definition).
THEOREM OneSnapshotAlways == Spec => []OneSnapshotPerScope
<1>1. IInv => OneSnapshotPerScope
  BY DEF IInv, ContextAgrees
<1> QED
  BY <1>1, Invariance, PTL

\* No declaration disturbs a snapshot: each is, when it is restored, what is
\* visible in the scope that becomes innermost again (scoped_* rules).
THEOREM SnapshotsAlwaysVisible == Spec => []SnapshotsAreVisible
<1>1. IInv => SnapshotsAreVisible
  BY DEF IInv, ContextAgrees
<1> QED
  BY <1>1, Invariance, PTL

\* The set that reinstall_function_context puts back is right although the
\* function's own name, and the scopes of later parameter lists, came and
\* went between the end of the list and the body.
THEOREM ParamsAlwaysFit == Spec => []ParamsFitFileScope
<1>1. IInv => ParamsFitFileScope
  BY RecordedFits
<1> QED
  BY <1>1, Invariance, PTL
=============================================================================
