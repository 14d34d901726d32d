# A TLA+ model of c11parser_cxx

c11parser_cxx parses C11 with a bison LALR(1) grammar, a flex lexer and
*lexical feedback*: an identifier is sent to the parser as a NAME token followed
by TYPE or VARIABLE, and which of the two it is comes from a table of typedef
names that the parser's semantic actions keep while they run. This directory
holds TLA+ modules of that machinery, TLC configurations, and TLAPS proofs.
Paths below are relative to the repository.

## The system

| Part | Source | State | Operations |
|---|---|---|---|
| `Context` | `src/declarator/context.h` | one flat set of names, `current` | look up, declare a type (insert), declare a variable (erase), save (copy), restore |
| `declarator` | `src/declarator/declarator.h` | a variant of identifier, function and other declarator; the function one keeps a saved set | two converting constructors, `identifier()`, `reinstall_function_context` |
| `C11Parser` | `src/grammar/c11parser.bison.y` | bison's stacks, one lookahead, `BisonParam::context` | the grammar's rules and their actions |
| `Lexer` scanner | `src/grammar/c11parser.flex.l` | flex's start condition and its stack, the position in the input | one rule per lexeme |
| `Lexer::checkToken`, split token | `src/lexer/c11parser_lexer.h`, `c11parser.flex.l:161-176` | `lexer_state`, `identifierToLookup`, options | filter each token; classify an identifier at the start of the next call |
| location | generated by bison, used at every flex rule | `LexParam::loc` | `step`, `lines`, `columns` |
| GCC extensions | `c11parser.bison.y:470`, `:1041-1416` | none of their own | more alternatives of the rules, some with their own declaring action |
| `BisonParam`, `LexParam`, initial action | `c11parser.bison.y:200-224`, `c11parser.flex.l:161-176` | what outlives a parse: context, callback, location, scanner | begin a parse, go on after one that was given up |
| `main`, statistics, tests, build, tools | the rest | | |

How they interact. The parser calls `yylex` for a token; `yylex` calls back
`is_typedefname`, which reads `Context`; actions change `Context` between two
calls. Everything runs on one thread, so there is no data race and no message
loss. What is hard is **order**:

- bison often has the next NAME as its lookahead *before* it runs the actions
  that declare a name, leave a scope, or enter one. The split token exists so
  that the lookup happens later;
- there is no scope stack. C11's block structure exists only because every
  `scoped_` rule restores the snapshot it took, and because a function body
  re-installs the set its declarator recorded when its parameter list ended;
- the lexer carries state from one call to the next (split token, `_Atomic`,
  start condition), with directives, comments and newlines in between;
- a parse borrows its `BisonParam`, `LexParam` and `Lexer`. It may be given up
  anywhere, there is no recovery, and the next parse begins with what it left.

What makes each part correct:

- `Context` with the actions: at every point of the program `current` is the
  set of typedef names visible by C11 6.2.1;
- `declarator`: a body gets back the parameter list applied to its own name;
- parser: every identifier is classified as C11 does; nothing of a finished
  declaration is left;
- lexer: each NAME is followed by its second half, `(` is `ATOMIC_LPAREN`
  exactly after a strict `_Atomic`, start conditions balance, locations are
  exact, directives are seen at the start of a line only, and every call ends;
- the objects: a parse reads its own `Context`, finds a callback, leaves only
  the file scope behind, and no half of an identifier for the next one.

## Modules

| Module | Models |
|---|---|
| `Scopes` | the reference, not code: C11 scopes and visibility |
| `Context` | `context.h`, one operator per member function |
| `Declarator` | `declarator.h`, one operator per constructor and method |
| `ContextProtocol` | the discipline by which actions use `Context`, without the grammar: the abstract specification |
| `Grammar` | the rules of `c11parser.bison.y` that touch `Context` or read an identifier, as data |
| `Parser` | the parser and the identifier part of the lexer over every program of `Grammar`; implements `ContextProtocol` |
| `Lexer` | the whole scanner, `checkToken`, options and location |
| `LexicalFeedback` | the contract between the two, not code: what `Lexer` and `Parser` both implement |
| `Session` | `BisonParam`, `LexParam` and `Lexer` over any number of parses |
| `ScopesTheorems`, `ContextProtocolProofs`, `LexerProofs`, `SessionProofs` | lemmas and proofs |
| `GrammarShapes`, `GrammarTheorems` | what each symbol of the grammar does to the value stack, and that every rule does what its nonterminal says |
| `ParserValues`, `ParserProofs` | the values on that stack; the parser's proofs |
| `MCContextProtocol`, `MCParser`, `MCLexer`, `MCSession` | what TLC needs |

Definitions called *mutant* are the code with one plausible mistake; no
specification uses them. Each one breaks the property it is written for.

### ContextProtocol

`current` is the code's set, `saved` the snapshots that live on bison's value
stack, `params` the set and scope of a parameter list that a definition may
re-install together with the file scope it was read in, and `scopes` the C11 scopes: compared with, never consulted by the
actions that stand for code. An action is one use of `Context` by the grammar:
`EnterScope` (save_context), `LeaveScope` (restore), `LeaveParams`
(`scoped_parameter_type_list_`), `DeclareType`, `DeclareVar`, `EnterBody`
(`function_definition1`). A body may reopen a list as long as the file scope
has since declared nothing but the function (`FitsFileScope`), which the guard of
`EnterBody` says and the parser's proof establishes. Any order the guards allow is a behaviour, so it
covers more programs than the grammar does.

### Parser and Grammar

A behaviour of `Parser` is a program and its parse. `stack` holds the symbols
that are still to come; `Expand` replaces a nonterminal by a right-hand side,
which chooses the program and has no counterpart in the code. It goes on until a
token comes first (`Derivations` unfolds the leading nonterminal seven times, and
`DerivationsComplete`, which TLC evaluates in every parser run, says that an eighth
time changes nothing), and it looks past pending actions only where that matters:
the token is a NAME (only its classification depends on the actions, and the
actions only on names), there is none, or the pending action is the `below_ELSE`
reduction, which waits for it. For the same reason `YylexOther` shifts its token
at once unless `below_ELSE` is pending. `YylexName`,
`YylexSecondHalf` and `YylexOther` are calls of `yylex`; `Shift` and the named
actions are bison's steps, an action being a symbol of the grammar that stands
where its rule is reduced. `YylexName` may run while actions are still to come:
whether bison needs the lookahead to decide on a reduction depends on its
tables, so both orders are behaviours. `vals` is the part of bison's value stack
that the actions use.

The grammar also has *marks* (`%scope`, `%end`, `%body`, `%ordinary`, `%type`)
where C11 says that a scope begins or ends and where a declared name's scope
begins. Only marks change `scopes`, only actions change `context`, so a rule
that forgot to save, restored the wrong snapshot, declared too late or declared
a member would make the two differ. A mark is passed in the same step as the
symbol before it; no rule has two in a row. `vals` records next to a declarator or a
parameter list (`own`) the scope and file scope it was read in, which no action reads
but the marks and the refinement.

Alternatives that begin alike share their beginning (a nonterminal holds what
follows), and lists have a nonterminal for their rest: the tokens and actions and
their order are those of the bison rules.

Rules without identifiers are left out: one arithmetic type stands for all,
one expression for all that read an object, `sizeof (type)` for all that hold a
type name. Programs that break a constraint no parser checks (an array of
functions) are excluded by `MayDerive`. A program that the parser rejects is a
behaviour that stops, which is why these runs do not look for deadlock.

The GCC alternatives are parts of their own, added to the rules they extend. One
attribute stands for several. Where the code reads `var_name` (labels of an asm
statement, members in `__builtin_offsetof`, a tag after attributes) a name that
is visible as a typedef name is rejected, which is a behaviour that stops;
`%prec below_GCC_ATTRIBUTE` only settles an LALR conflict. A declared name's
scope begins before the attributes after it (C11 6.2.1p7).

### LexicalFeedback

One token slot, one remembered name, one set of typedef names. NAME is handed
over, then nothing but the second half, classified by the set as it is then; the
set may change in between in any way. `Lexer` implements it with a call that
starts in SIdent (`ImplementsFeedback`), `Parser` with a lookahead that is fetched
when the previous one was shifted (`UsesFeedback`). The two are modelled apart,
and this is what each may assume of the other.

### Session

The state is what the code's objects keep: `contexts`, `callback`, `named` and
`line` (`LexParam::loc`), `lexer_state`, `identifierToLookup`, and how far a
`Lexer` has read. `Parse` is the initial action with its two `if`s; `ParserYylex`
and `ClientYylex` are calls of `yylex` from the parser and, as the lexer's tests do,
without one; `SetCallback` and `DestroyBisonParam` are the client's. `Save`,
`Restore` and `Declares` reduce the grammar to what it does to `Context`;
`SyntaxError` gives a parse up at a token that does not fit, or by an exception
thrown in a rule of the scanner. One parse runs at a time, as everywhere in the
repository. A `Lexer` at the end of its input stays there. A callback into a
destroyed `BisonParam` is undefined behaviour and answers anything.
`fileScope`, `failed`, `users`, `lexed` and `left` are not in the code; the
properties use them to say which histories they are about.

### Lexer

An action is a flex rule, or a family that differs only in the token returned.
The input is any text: a step chooses the lexeme at the cursor among those the
rules of the current start condition tell apart; `ahead` remembers what
`yyless(0)` or a greedy match has revealed of the next character. `Call` is the
entry of `yylex`, `checkToken` the filter, and `Declares` an action of the
parser between two calls. `pos`, `lineStart` and `previous` are observers.
An exception stops the model: the parser reports it and does not recover.

## Runs

| Run | Bounds | What it shows |
|---|---|---|
| `context_protocol` | 2 spellings, 4 scopes | saving and restoring one flat set gives block structure, whatever the order of uses |
| `parser_declarators` | definitions, parameter lists, pointers, attributes, initializers; 2 scopes, 2 brackets | the right list is re-installed; lookahead read early is classified right; nothing is left between declarations; the parser uses the split token as promised |
| `parser_prototypes` | abstract declarators, type names, enumerators; 3 scopes, 2 brackets | scopes of nested prototypes |
| `parser_lists` | several declarators, parameters, enumerators, with attributes and initializers; 2 scopes, 2 brackets | a name is in scope before its attributes, its initializer and the next of the list |
| `parser_statements` | if, else, switch, loops, initializers; 6 scopes, 2 brackets | statements restore what they saved, lookahead for else included |
| `parser_members` | members, tags, labels, arrays, old-style definitions, attributes, asm, `__extension__`; 3 scopes, 2 brackets | names of other name spaces declare nothing, words of attributes included |
| `lexer` | 3 lines of 4 characters, 1 spelling, all options | all lexer properties, the split token's contract, and that every call ends |
| `session` | 2 `BisonParam`s, 1 `LexParam`, 2 `Lexer`s, 1 spelling, 2 snapshots, 2 lines | what the objects carry from one parse to the next |
| `parser_returned_function`, `parser_returned_array`, `lexer_form_feed`, `lexer_end_of_input` | as above | the findings below |

Every parser run checks `ClassifiedAsC11` (an action property over the second
half of each identifier) and `FollowsProtocol`, the refinement: each step of
the parser is a step of `ContextProtocol` or leaves its state alone, under the
mapping `LiveSnapshots`, `PendingParams`.

Why the bounds are enough. The number of tokens of a program and of its external
declarations is not bounded: only scopes and brackets open at once are
(`MaxDepth`, `MaxBrackets`). Names interact by hiding, which
takes one name at two levels; the second spelling is the one that must not be
disturbed, and no action relates three. Two brackets nest a parameter list in a
declarator and a body around a condition. Six scopes are file, body, selection,
substatement, and both again, the least in which a dangling else can end two
statements at once. In the lexer three lines of four characters hold a
directive, a literal with an escape and what follows it, and a `_Atomic ( name`
across a newline. `Features` splits the grammar so that each run is small; the
splits keep together what shares state. In a session what goes wrong takes two
`BisonParam`s with one `LexParam` (the callback of the first), or two `Lexer`s with
one `LexParam` (the location); names do not interact across parses, so one
spelling is enough; the outermost snapshot and one above it tell `Restore` at the
end from `Restore` inside; two lines tell a location that starts over from one
that goes on. The number of parses is not bounded.

Fairness. Only `Lexer` assumes any: weak fairness of `Rule`, that a running call
of `yylex` goes on matching. It is a loop without a wait. Nothing is assumed
about the parser's calling again. `CallReturns` then says that no cycle of rules
that give their character back exists.

## Proofs

`ContextProtocolProofs` proves for every set of spellings and every `MaxDepth`:
`TypeOK`, `OneSnapshotPerScope`, `CurrentIsVisible`, `SnapshotsAreVisible` and
`ParamsFitFileScope` are invariants of `ContextProtocol`. Assumed: `MaxDepthAssumption` and
`IdsAssumption` (the placeholder "none" is no spelling).

None of them is inductive alone. That `current` is right after `LeaveScope`
needs that the snapshot was right, that it is the snapshot of *that* scope, and
that what is visible in the outer scopes did not change since: `IInv` is the
conjunction of the type invariant, one snapshot per open scope,
`SnapshotsAreVisible`, `CurrentIsVisible` and `ParamsRecorded`: a remembered set is
what its list made visible over the file scope of that time, which later
declarations do not change. `ParamsFitFileScope` follows. There is one lemma per
action. They rest on `ScopesTheorems`: what `Enter`, `Leave` and
`Declare` do to `VisibleTypes` of the outer scopes (nothing) and of the
innermost one, and what is visible in a parameter scope laid over the file
scope, which is where the erased function name comes in.

`LexerProofs` proves every safety property of `Lexer` for every set of spellings
and every size of the input, from `LexerBounds` and `LexerIds`. A rule does
three independent things, with a lemma for each: it moves cursor and location
(`Moves`), changes the start condition (`Switches`), and goes on, returns or
throws (`Ends`). What is inductive:

- `Located` and `CondInv` are, by `Moves` and `Switches` alone;
- `SplitTokens` and `AtomicParenthesis` need `FilterInv`: the state of the filter
  is a function of the token returned last (SIdent after NAME, SAtomic after a
  strict `_Atomic`) and a running call is never in SIdent;
- `DirectivesAtLineStart` needs `LineInv`, that `INITIAL` meets a blank line only
  through the `yyless(0)` of `INITIAL_LINEBEGIN`; this in turn needs that the end
  of an escape pops to a literal's condition, which is `CondInv`.

`ImplementsFeedback` follows from `FilterInv` and the same three lemmas: a call
that returns NAME sets SIdent and the name, the next call returns before a rule
matches, and every other rule leaves both alone.

`ParserProofs` proves every property of `Parser` for every set of spellings,
features and bounds, from `IdsAssumption`, `MaxDepthAssumption` and
`FeaturesAssumption`; two of them under one more condition, below.

`UsesFeedback` needs only `HalvesInv`: a name is remembered exactly in SIdent, and then
the lookahead is its NAME or none. The grammar does not enter, since every semantic
action leaves the lexer and the lookahead alone: all sixteen are one lemma.

The other properties depend on which values are on `vals` when an action runs, and so
on all derivations of the grammar. Their proof is a type system for bison's value
stack:

- A `Shape` lists the role of each value. `Effect(s, a, b)` (`GrammarShapes`) says
  that symbol `s` may stand where the shape is `a` and leaves `b`. For an action that
  is read off its code: which of `$1`, `$2`, ... it uses and what it makes of `$$`. For a
  nonterminal it is what all it derives does together.
- `GrammarTyped`: every rule does to the shape what its nonterminal says.
  `DerivationsTyped`: so does every derivation that `Expand` chooses from, by splicing.
  `stack` thus fits some shape after any number of expansions; no induction
  over derivations is needed, since each step of the parser replaces or takes one
  symbol.
- `Sound` (`ParserValues`) says that the values are those of a shape: each suits its
  role; there is a snapshot for every open scope but the file scope; no block is open
  in a parameter list and the scopes of lists declare no typedef name; while the
  declarator of a definition is read, the file scope is what it was when the
  declarator's list was read.
- `Balanced`, the core of the invariant `ParserInv`: some shape fits both the symbols to
  come and the values, or does so but for one of three pairs that run one after the
  other: the two halves of a name, the end of a list and its restoring action, the
  declaration of a function and the start of its body.

There is one lemma per action. It shows that `ParserInv` is kept and what happened to
`context`, `LiveSnapshots` and `scopes` (`Nests`: nothing, a push, a pop or a declaration),
and which step of `ContextProtocol` this is. The results:

- `TypeCorrect`: `TypeOK`.
- `CleanAtFileScope`: `FileScopeClean`, without a condition. It needs `Nests` and that
  the outermost table is always that of the file scope (`FileTableRight`); that a body
  begins with a wrong table (findings 1 and 2) does not reach the next declaration.
- `ImplementsProtocol` and `ClassifiesAsC11`: `FollowsProtocol` and `ClassifiedAsC11`, if
  `Lossless`: with function definitions and parameter lists in the grammar there are no
  array declarators or identifier lists. Without it both are false, and runs
  `parser_returned_function` and `parser_returned_array` are the two smallest
  violations; every other parser run has `Features` that satisfy it. `ClassifiesAsC11`
  is the parser's step into `EnterBody`, `LeaveScope` and so on, composed with
  `CurrentAlwaysVisible` of the protocol.

`SessionProofs` proves every property of `Session` for any sets of objects and
spellings, from `SessionBounds` and `SessionNames`. The inductive `IInv` adds to the
type invariant:

- `CallbackOfUser` and `ParseRegistered`: a callback belongs to somebody who used
  its `LexParam`, and a running parse is among the users; with these and
  `StateFollowsToken` (the last token of a parse tells its `Lexer`'s state), the
  lookup of `OwnContext` goes to the parse's own `Context`;
- `UseRecorded` and `UnusedAtFirstLine`: a `LexParam` that served a parse has a file
  name, so that `initialize` does not run on it again, and what was never used
  stands at line 1; without them a first parse could break `LinesAgree`;
- `NoStrayHalf` needs `StateFollowsToken` when a parse ends, and `FileScopeKept` is
  inductive by the bottom snapshot, which is the file scope's set while there is
  one.

Only model-checked: the lexer's `CallReturns`, since liveness is out of the prover's
reach, and the four properties that are violated (their runs show a behaviour). Not
proved is also `DerivationsComplete`: that seven unfoldings reach a token is evaluated
for the `Features` of each parser run; the theorems do not rest on it.

## Findings

1. `declarator.h:98`: a function declarator built over an "other" declarator
   (arrays, identifier lists) has an empty context, and `function_definition1`
   installs it. In `typedef int a; int (*b())(int) { a x; }` the body starts
   with no typedef names. Run `parser_returned_function`.
2. `declarator.h:105`: an "other" declarator built over a function declarator
   drops its context. In the body of `int (*b(int a))[] { ... }` the parameter
   `a` does not hide a typedef name. Run `parser_returned_array`.
3. `c11parser.flex.l:875` says that white space includes form feed; the
   expression on line 82 does not. Run `lexer_form_feed`.
4. No start condition has an end-of-file rule: a file that ends inside a
   comment or a literal after a complete declaration is accepted silently. Run
   `lexer_end_of_input`.

## Not modelled

- The LALR tables themselves: conflicts are modelled by their documented
  resolution (`typedef_name_spec` over `general_identifier`, `below_ELSE`).
- Regular expressions of constants and escapes, beyond match or no match.
- Rules without an identifier or an action (operators, qualifiers, constants,
  GCC's keywords that stand where an ordinary one stands): they change nothing
  these modules describe.
- Statistics, command line, debug traces. What `main` chooses (options, file
  name) is a free choice of the initial states.
- `src/data` (a preprocessed copy of SQLite, the parser's sample input) and the
  unit tests. They are nearly all of the repository's lines and have no
  behaviour of the parser, so the share of lines that the modules map is small
  although every stateful part of the implementation is mapped.
- `c11parser_guard_flexlexer.h`, an include guard.
- Several parses at once on the same objects, or flex's buffer switching: no
  code in the repository does either.
- One hazard has no property: `translation_unit_file` is right recursive
  (`c11parser.bison.y:379`), so bison's stack grows with each external
  declaration. The growth is evident from the rule, and the code states no limit
  that it could break.

## Plan

Done, in this order: `Scopes`, `Context`, `ContextProtocol` and its proofs;
`Declarator`, `Grammar`, `Parser` and the refinement; `Lexer` and its proofs; GCC's
alternatives; `LexicalFeedback` and the two refinements; `Session` and its proofs; the
grammar's effect on the value stack, and with it the proofs of `Parser`.
Left:

1. weaken `Lossless` from a condition on the grammar to one on the program: which
   sequences of derivations keep the list applied to the name and which lose it
   (`Declarator`, findings 1 and 2), so that the theorems cover every program without
   such a declarator;
2. that `Session`'s `Save`, `Restore` and `Declares` are what the parser does to
   `Context`: `Nests` is the step lemma for it.
