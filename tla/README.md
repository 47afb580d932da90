# Verification of the MoneyLang compiler

TLA+ models, model-checking runs and machine-checked proofs for MoneyLang
("Money++"), a compiler in C for a small language of doubles, blocks and
functions. Everything is translated from the sources; where the documentation
and the code differ, the code is modelled and the difference is a run that
TLC refutes.

## 1. The system

```
program.mpp -> Frontend: lexicalAnalysis -> syntaxAnalysis -> AST file
AST file    -> Backend:  readFromAST -> initStdlibFunctions -> convertASTtoIR
                         -> translateIRtox86Asm (pass 1, headers, pass 2) -> ELF
                     or  readFromAST -> convertASTtoSPUAsm -> SPU assembler
ELF         -> process:  _start, the compiled functions, __stdlib_in/out
SPU code    -> the SPU processor, another program
main of each program: argv -> ArgvProcessor -> the stages above -> files
```

Both programs are sequential: there are no threads, no callbacks and nothing
that survives a crash. What is hard is that each stage keeps state other
stages depend on through addresses, indexes and numbers of words, none of
which is checked when it is used.

| Component | State | Operations | What makes it correct |
|---|---|---|---|
| Lexer (`lexicalAnalysis.c`) | cursor, line, column, quote flag, token array | skip, read a lexeme, longest operator, number, name | the tokens are those of the text; it stops at the end of the text |
| Parser (`syntaxAnalysis.c`) | token pointer, soft/hard status, token nodes changed into tree nodes, identifier types | one function per grammar rule | accepts the grammar of `README_en.md` and builds the tree of the program |
| Reverse front end (`frontend.c`) | indentation, output | prints a tree as a program | parsing the output gives the tree back |
| Name table (`nameTable.c`) | identifiers, names arena | insert, find, write, read | one index per name, kept across the AST file |
| AST file (`tree.c`) | text cursor, node memory | write, read | reading what was written gives the tree back |
| Variables stack (`localsStack.c`, `IRConverter.c`) | array of slots, size | push a variable, a parameter, a scope; pop a scope; search | lexical scoping; every visible variable has a word of its own, the one allocated for it |
| AST to IR (`IRConverter.c`) | IR array, variables stack, `inFunction` | one handler per operator | the IR does what the tree says; wrong programs are refused |
| x86 translation (`backend_x86_64.c`, `emitters_x86_64.c`, `elfWriter.c`) | offset and size of every node, address of every function, output buffer | two passes over the IR | jumps and calls reach their destination; headers describe the file |
| The process (emitted code, `stdlib.s`) | rsp, rbp, rbx, rax, stack, input, output | one step per IR node | output is the program's; calls restore their caller |
| Runtime (`stdlib.s`) | registers, a 16-byte line buffer, one character | read a number, print a number | what is printed reads back; the buffer is not left; a read ends |
| SPU back end (`backend_Spu.c`) | its own pushes and search on the variables stack, label counters, the file | one handler per operator | as the x86 back end; arguments stored ahead of the callee's frame hit no variable |
| Options (`argvProcessor.cpp`) | registered flags, flags found, default arguments | register, scan | every option has its own value, no value is taken for an option |
| Drivers (`main.c`, `backendInterface.c`, `frontend.c`) | flags, files, exit status | one command | what is run is the translation of the present text |
| Arena, logger (`global/`) | arena pointer; a file | allocate; write | allocations stay inside |

How they interact: the front end hands over the tree and the name table in a
file; the parser's identifier types and numbers of parameters are what the
converter checks calls against; the converter's slot addresses are only right
if the code it emits moves `rsp` by the same number of words on every path, and
the SPU back end's only if a callee's `rbx` starts where its caller stored the
arguments;
the second pass of the translator reads offsets the first pass left in the IR
array and in the name table.

The behaviours that are hard to test, with the line where each one bites and
the properties that cover it, are the `hazards` of `PROJECT.json`.

## 2. Modules

| Module | Models | Notes |
|---|---|---|
| `LocalsStack` | the slots and every operation on them, as operators from stack to stack | popping leaves the slots' contents, a function separator keeps the address it finds |
| `ScopeStack` | the converter's use of the stack: `Declare`, `OpenBlock`, `CloseBlock`, `NextBlock` (from a branch to its `else`), `OpenFunction` with its parameters, `CloseFunction`, in every order that nests | `LayoutElsewhere` is the layout drawn above `LocalsStackPush`, for all but the first block of a parameterless function |
| `LexicalScopes` | what the stack promises: a sequence of open blocks, each a sequence of names | `ScopeStack` refines it: the blocks are the stretches between separators, the b-th start being the separator with b - 1 starts under it |
| `IRNodes` | IR node types and constructors; which label a call goes to | shared by converter, translator and machine |
| `IRConverter` | the recursive walk over the tree: one action per stretch of a handler between two recursive calls | the C call stack is the sequence `work`; a handler's return is dropping its head. It implements `ScopeStack` with the same `stk` and `inFunction` (`KeepsScopes`). `Nodes` and `ParamLists` name the nodes and parameter lists of the trees, for the assumptions |
| `IRMachine` | the process: one action per IR node (a call has two: the call and `add rsp` after it returned) | words of stack, `rsp`/`rbp`/`rbx` as word addresses; reading a word as what it is not is "wild" |
| `MoneySemantics` | a reference interpreter and the static rules, over trees | written from the language; no stack, no addresses, no jumps |
| `MoneyLang` | the composition: convert, then run | the properties compare the process with the reference |
| `MCPrograms` | families of trees the runs use | |
| `TwoPass` | `translateIRtox86Asm` and `translateIRarray`: both passes, one action per kind of node | an instruction is its length and, for jumps and calls, its operand |
| `Lexer` | `lexicalAnalysis`: one action per kind of token, with the blanks and comments behind it; before that the text is written, unit by unit | the words the text was written as are kept, and the properties compare the tokens with them |
| `SyntaxTrees` | nodes of the tree and tokens, which are nodes | shared by the four modules below |
| `Parser` | `syntaxAnalysis.c`: one operator per function of the recursive descent | from parse state to parse state; `Get` calls a function by its rule's name, which keeps the mutual recursion in one place |
| `Language` | the grammar in the comment of `langProcessing.h`; which texts it derives; the text of a tree | what the parser is held against; shares nothing with it |
| `ASTFile` | writing and reading the AST file, with the name table and the limits of the reader's memory | |
| `ReverseFrontend` | `writeAsProgram`: the program a tree is printed as | |
| `Frontend` | the composition: a program is edited, translated to an AST file, turned back into a program, and so on | the token sequence stands for the program's text |
| `SPUScopes` | the SPU back end's use of `LocalsStack`: its addresses, where arguments are stored, scopes in any nesting | its own small specification, extended by `SPUBackend` |
| `SPUCode` | the assembler: instructions, labels, the routines `translateAsmSTD` appends | an instruction is a record; a label is a kind and a number |
| `SPUBackend` | the walk of `translateToAsmRecursive`, one action per stretch of a handler up to a recursive call | `work` is the C call stack, as in `IRConverter`; text still to be printed is an activation too |
| `SPUMachine` | the processor: operand stack, return stack, memory, `rbx`, `rax` | external: its instructions do what the back end uses them for |
| `MoneySPU` | the composition: translate, then run | `Supported` names the programs the back end is made for |
| `ProgramOptions`, `ArgvProcessor` | the options of both programs; `processArgs`, one step per word or letter | a word is its form and its letters; the comparison reads the whole line at once, without a scan |
| `Toolchain` | both `main`s with `ArgvProcessor` inside, the files they open and write, scripts of commands | a text is a version and what is wrong with it; the stages are their verdicts (modelled above) |
| `Stdlib` | `__stdlib_out` and `__stdlib_in`, one action per loop or stretch between loops; the pipe between two programs | characters are codes, numbers decimals |
| `LocalsStack_proofs`, `ScopeStack_proofs`, `IRConverter_proofs`, `SPUBackend_proofs`, `TwoPass_proofs`, `Lexer_proofs`, `ArgvProcessor_proofs`, `Stdlib_proofs` | theorems, for every value of the constants | |
| `MCScopeStack`, `MCMoneyLang`, `MCMoneySPU`, `MCTwoPass`, `MCLexer`, `MCFrontend`, `MCArgvProcessor`, `MCToolchain`, `MCStdlib` | the instances TLC checks | |

Correspondence worth knowing when reading them beside the code:

- A stack slot is `LocalVar_t`; indexes are the C ones (from 0). IR nodes are
  numbered from 1 in the models, from 0 in the code.
- `Resume(at, n, i, j)` in `IRConverter` is a handler suspended in a recursive
  call; `i` and `j` are its local variables (indexes of nodes to patch, the
  number of arguments still expected).
- An error return (`SyntaxError`, `RET_ON_ERROR`) empties `work` at once: every
  caller only passes the status on.
- A parse state of `Parser` is a record: the pointer `p`, the status `st`, the
  value the last function returned (`n`), the identifiers' types and numbers of
  parameters (`ids`) and the length of the last chain (`count`). A soft error
  leaves the pointer where the C function leaves it, which is not always where
  it was. A chain of statements is the sequence of the left sons of its `SEP`
  nodes; linking the next block to a block's *first* statement, as `GetBlock`
  does, is appending to a sequence that has lost all but its head.
- `Language` reads the grammar as EBNF and looks for derivations by sets of end
  positions: no order of alternatives, no pointer, no errors. Where the comment
  writes `Expr?[,Expr]*` it takes a chain that starts with its first element.
- `Lexer` has no action for the error returns of `lexicalAnalysis`: `strtod`
  is only called at a digit, and `ScanAdvances` below says why a lexeme is
  never empty.
- `place[k]` in `TwoPass` is a history variable: `bufferSize` when the code of
  node k was written. `calls` in `IRMachine` and `bases` in `SPUMachine` are
  too: what a return should restore. So are `sent`, `received` and `taken` in
  `Stdlib`, and `failed` and `asked` in `Toolchain`.
- `letter` and `values` in `ArgvProcessor` are the two counters of
  `processShortFlags`: letters of the word scanned, and words those letters took.
- Slots of `buffer` in `Stdlib` below 0 are the words under the line buffer,
  which the code would write if a number were too long.

## 3. Runs

| Run | Question | Instance |
|---|---|---|
| `scope_stack` | Is the stack lexical scoping? Does the search find the declaration a name means and tell locals from globals? Do variables of a frame ever share a word? Is every local the word its own `sub rsp, 8` allocates, but for the exception named in the property? | 2 names, functions of none and of both of them as parameters, 5 slots: enough for a global, a function, a block and two variables, or a function with two parameters, a block and a variable, and for reusing slots that scopes have left |
| `programs` | Do programs print what the text says? Are exactly the programs accepted that use names in scope and call functions with their number of arguments? Is every block's memory released, does a return restore its caller, does everything stop? Does the walk open and close scopes as `ScopeStack` does? Does every jump of its output have a destination? | 1680 programs of blocks, every compound statement over two variables followed by every simple one; some 580 of functions: 12 bodies of a function of 0 to 2 parameters, a second function calling it, main programs calling both in every position, with early returns, recursion, shadowing, wrong numbers of arguments and misused names among them; 254 more that call functions above their declarations |
| `missing_argument` (violation) | Is a call without its arguments refused? | a function of one parameter called with none |
| `two_pass` | Do jumps and calls land? | every three nodes among labels, jumps, calls (of functions defined before, after, twice, nowhere, and of the runtime) and nodes of varying size, then one node of every other kind |
| `lexer` | Are the tokens the words of the text, at their positions, whatever separates them? Is a name in the table once? Is only a text that is too long refused? Does every step of the scan take a character? | every text of up to three of 11 units (operators that begin alike, names, a number with its currency, a quoted text), separated by nothing, a blank or a comment line; 6 tokens, 2 names |
| `parser` | Is exactly the language accepted, and nothing lost of it? | every sequence of up to 5 of 9 pieces between `ShowBalance` and `%`, of up to 6 of 8 statement pieces, of up to 3 of 6 between `f(` and `)` |
| `second_argument` (violation) | The first question with assertions | calls |
| `sentences` | Do trees group as the grammar does? Does the AST file give tree and name table back, or an error if they do not fit into the reader's memory? Is the name table the one the runs of the converter assume? Does a formatted program have the same tree? Does formatting a formatted program change nothing, even where the first formatting changed the tree? | the programs of `programs`, every pair of operators with one an operand of the other, functions between operators, branches in branches; 200 nodes and 24 |
| `spu` | Does the SPU code print what the text says, taxed or not? Is every legal program translated? Does every call give its caller's base back? Does everything stop? Are arguments stored above every visible variable, and variables in words of their own? | the programs of `programs`; those that end in a text are taxed; 20 words of memory, so that recursion without end runs out of it |
| `options` | Is a command line accepted exactly when it can be read? Is what is stored what it says? Is a value ever scanned as an option? | every line of up to four of 11 words: values, blank options, options with values alone and three in a word, unknown ones, and the two without a short name; 2 default arguments, so that a third is dropped |
| `toolchain` | Is what a script runs the translation of the present text, as the command line asked? | scripts of two builds with a changed text between them, the first written one way, the second in 4 x 9 ways; the reverse front end between the two programs; programs called in the wrong order; texts wrong at every stage; `stdlib.elf` missing |
| `runtime` | Does a program read what another printed? Does a line stay in its buffer? Does a read take exactly a number, and end? | pairs of 6 numbers and the longest ones, any byte in the buffer; every text of up to five of 7 characters, read twice |

Bounds. The stack capacity of the runs replaces `LOCALS_STACK_SIZE` (128): the
C code never looks at it, so a smaller one only cuts longer programs short.
`StackWords` is the machine stack; recursion that exhausts it is a behaviour
(`segv`), not a cut. Numbers are integers a double holds exactly and programs
are chosen so that division and square root are exact; the rounding of doubles
is not modelled. Input is two numbers, more than any program reads.

The bounds on pieces (`max`: 5, 6 and 3) let five pieces hold an operator with
two operands in brackets, six an `if` with an `else`, a block in it and a
statement behind. Four identifiers are enough for a function, its parameter, a
second name and an undeclared one. 24 nodes lie between the smallest and the
largest tree of `sentences`; 200 are never used up. In `lexer`, `MaxTokens` = 6
and `MaxNames` = 2 let three units fill the token array and the name table.

Four words (`MaxWords`) let an option with three letters be followed by its two
values and one word more; with two letters owing values a line can be one word
short. Two builds are the fewest in which an old file can be run for a new one.
`Infinity` stops the registers of a read, which would wrap at 2^63; texts of
five characters hold a sign, a digit, a point, a digit and what ends the number.
`Finer` = 10 gives numbers one digit more than the six that are printed.

Deadlock checking is off in the runs of `ScopeStack`, `TwoPass`, `Lexer`,
`Frontend`, `ArgvProcessor`, `Toolchain` and `Stdlib`, which really end (the
stack is full or closed; the file is written; the text or the line is scanned;
four runs were made or one failed; the script is done; the numbers are printed
and read); in the runs of `MoneyLang` and `MoneySPU` it is on, a finished
process stutters in `Stopped`.

Fairness. `MLSpec` and `SPUSpec` have weak fairness of `Compile` and of
`Execute`: a back end is one thread that is always runnable until it returns,
and so is the process, which waits for nothing but input and the programs' input
suffices. `Stdlib` has weak fairness of `Out` and of `In`, the two processes of
the pipe: a writer never waits, a reader only for a writer that has not closed
the pipe. `ProgramStops`, `SPUStops` and `ReadEnds` are the properties that use
it; the other specifications have none, their properties are all of safety.

What the passing runs show, beyond the absence of errors: `OutputCorrect`
compares every output with an interpreter that shares nothing with the
compiler; `AcceptsLegal` is an equivalence, so errors are neither missing nor
spurious; `StackBalanced` ties the compile-time stack to the run-time one.
`StoresWhatIsMeant` compares the scan with a reading of the line that looks for
the set of words that are values, all at once. `ReadsNumeral` compares the loops
of `__stdlib_in` with the value of the longest number text.

### Findings

1. `missing_argument`: `convertCall` (IRConverter.c:728) only counts arguments
   when there are some. `f()` of a one-parameter function is translated and the
   caller then drops a word it never pushed.
2. `second_argument`: `setIdType` is called for every argument after the first
   (syntaxAnalysis.c:784); `f(x, 1)` fails its assertion, and a build without
   assertions overwrites the type of whatever name the number's low word is the
   index of.

### Exceptions the passing runs make

Each is a place where the code does not do what its comments say or what one
would expect, found with the models but without a run of its own. The properties
or the instances leave out exactly these cases.

Back ends:

- `LocalsStackInitScope` (localsStack.c:45) does not write the address of a
  function's separator. Two globals, or a block in the program, leave an address
  in the slot; a parameterless function whose first variable is inside a block
  then numbers it after that address, below the words the function has
  allocated, where expression temporaries overwrite it. `LayoutElsewhere`
  excepts that block (`InFirstBlock`), and no parameterless function of `programs`
  has a block.
- The SPU back end stores each argument as soon as it is evaluated, where a call
  inside a later argument stores its own (backend_Spu.c:182, a TODO there); a
  call used as a statement leaves its result on the operand stack, where the end
  of the enclosing function's call looks for `rbx` (a TODO too); one scope holds
  both branches of an `if` (backend_Spu.c:120), so a variable of the first is
  still in scope in the second. `Supported` excepts these three, by `CallsFirst`,
  `ResultsUsed` and `BranchesApart`.
- The texts for too few and too many arguments are exchanged (IRConverter.c:757
  and 765); texts are not modelled.

Front end:

- What follows a nested block replaces all of the block but its first statement
  (syntaxAnalysis.c:378, and :127 at the top level). `KeepsWords` is about
  programs with `PlainBlocks`.
- `ln` and `ctg` have no name in the AST file (Context.h:181), and the reader
  cuts the tree short there without an error. `sentences` has only functions
  with a name.
- `f(()` and `f(sin()` are accepted as calls: a soft error of the first argument
  counts as an empty chain even if brackets have been consumed
  (syntaxAnalysis.c:811). `ParserGrammar` is the grammar with these.
- The reverse front end writes `a - (b - c)` as `a - b - c` (frontend.c:70); an
  `else` after a branch of one statement, written without `< >`, can move to
  an inner `if` (frontend.c:148); `Txt (...)` is written without quotes
  (frontend.c:64). `Reversible` says which trees are free of these;
  `FormatterIsStable` holds for the others too.
- The AST file keeps six significant digits (tree.c:214). `sentences` has no
  longer numbers.
- `iff` is read as `if` and `f`, because operators are looked for before names
  (lexicalAnalysis.c:158); a quoted text that starts with a digit, a blank or an
  operator is read as those (lexicalAnalysis.c:143); newlines in a text are not
  counted (lexicalAnalysis.c:43); a comment without a newline at the end of the
  file is skipped past its end (lexicalAnalysis.c:22). `Units` and `Ends` of
  `lexer` have none of these.
- With a full name table tokens have no name and the lexer succeeds
  (lexicalAnalysis.c:175); no property of `lexer` says otherwise.

Programs and runtime:

- The options without a letter share the short name `" "`, by which a repeated
  option is recognised (argvProcessor.cpp:256): `--spu --lst` is refused.
  `AcceptsReadable` names these lines (`Confused`).
- A text that is refused ends its command with exit status 0 (Backend
  main.c:79, Frontend main.c:68), so that a script goes on and runs the program
  of the text before. `RunsPresentText` is about texts that are not refused.
- A number of ten digits or more leaves the line buffer at its start
  (stdlib.s:74); `Billion` is the bound of `StaysInBuffer`.
- When the input ends inside a number its last digit is read for ever
  (stdlib.s:152); `ReadEnds` has that case as `EndsInDigit`.

## 4. Proofs

`tlapm` proves, with no assumption but the named ones in the modules:

`LocalsStack_proofs` holds what the users of the stack share: what a push, a
scope, parameters and a pop change and leave (`Agree`), which separators there
are after each, that a non-empty set of slots has a last one, and how a list of
pending activations and the separators on the stack match (`Matches`), which is
the argument about both walks below.

`ScopeStack_proofs` (assuming names are natural numbers, the capacity is
positive and parameter lists consist of names) is in two halves.

*Addresses*: `TypeCorrect`, `AddressesAreDistinct`, `LocalsAreWhereAllocated`.
Neither that two variables never share a word nor that a local is the word its
`sub rsp, 8` makes is inductive: a separator may carry any stale address, and
the next variable is numbered from it. The invariant `Sound` adds that in a
frame addresses never rise once they are negative, each variable strictly below
what is under it (`Descending`); that parameters, the only variables with other
addresses, go up (`ParametersAscend`); that what stands on top of a frame
carries the number of locals under it (`WellLaidOut`), unless it is `Stale`, the
address of a function's separator or of a block right above one, which is the
exception `LayoutElsewhere` makes; and that a program's first slot, the one
separator with nothing under it, still has the zero of `calloc`
(`FreshBottom`).

*Scopes*: `StackIsLexical`, that `ScopeStack` implements `LexicalScopes`, and
`SearchIsRight`. The mapping counts separators; the proof works with a list of
where the blocks start instead (`Enumerates`), shows once that such a list is
what the mapping counts out (`CountedOut`), and then that a declaration extends
the last block of the list (`NameEnters`, `NamesEnter` for parameters), an
opened scope extends the list by its own slot (`BlockOpens`) and a pop shortens
it by one (`BlockCloses`). The invariant `Nested` says that a list exists, and
that there is exactly one function separator while a function is open and none
otherwise, which is what makes `FunctionBlock` follow the lexical `function`.
For the search, the blocks are disjoint and leave no slot out (`InSomeBlock`,
`BlocksInOrder`), so that the topmost slot with a name is the last one of the
innermost block that has it.

`IRConverter_proofs`: `WalkKeepsScopes`, `OutputTranslatable`,
`WalkSearchesRight`, for every set of trees. It assumes of a tree what the
parser makes: sons are nodes of it, declarations, calls and functions hold
names (`NodesAssumption`), the parameter lists are lists of names
(`ParamListsAssumption`), the name table has an entry for each name
(`NameTableAssumption`) and the runtime's functions are in it
(`RuntimeAssumption`). No order or nesting of operators is assumed.
The invariant `IInv` relates the pending activations to what they will do.
Those that will close a scope are as many as the separators on the stack, in
the same order and of the same kind (`Matches`): when one of them is resumed,
the innermost separator is its own, so `LocalsStackPopScope`, which asks for
nothing, closes the right scope. Those that will patch a jump are the only ones
to owe it its destination, and the label a loop jumps back to is there
(`Contract`): when none is pending, every jump goes to a label of the
converter's. 20 of the handlers' actions leave both relations alone
(`Quietly`) or fail (`Failed`); the other eight have a lemma each. `WalkKeepsScopes`
then maps every action to one of `ScopeStack` or to a stutter, and
`WalkSearchesRight` carries the theorems of `ScopeStack_proofs` over: in every
state of every conversion variables have words of their own, locals are where
they are allocated and the search finds what a name means.

`SPUBackend_proofs`, for every set of trees: first the scopes in any nesting,
then the walk. `ArgumentsNeverClobber` and `WordsDistinct` are about `SPUScopes`
and assume what `ScopeStack_proofs` does. In a frame addresses never fall from
one slot to the next and a variable's is above all under it (`WellNumbered`).
That has to be known of what a slot holds before it is taken, since the
separator of a function keeps it: it is a number, and never a negative one.
`SPUWalkKeepsScopes`, `SPUWalkKeepsWords` and `SPUWalkClosesItsOwn` assume of a
tree that the sons of its nodes are nodes of it, that a declared variable is an
identifier and that parameters are a chain of them (`NodesAssumption`). The
invariant `WalkInv` says that the pending `pop_scope` and `end_function` are as
many as the separators, in the same order and of the same kind, as for the
converter: so every step of the walk is a step of `SPUScopes` or leaves the
stack alone, which carries the two theorems over, a scope is closed by the
handler that opened it, and a translation that succeeds leaves none open. One
that fails leaves them, which is why the invariant says nothing of them then.

`TwoPass_proofs` (assuming what `IsIR` says of the array and that calls and
function labels name identifiers): `TypeCorrect`, `JumpsLandCorrectly`,
`CallsLandCorrectly`, `HeaderIsExact`. The invariant makes start offsets the
running sums of sizes (`LaidOut`, `Offset`): since a node's size does not
depend on the operand of its jump, the second pass computes the offsets the
first one left, and `getJmpAddress`, which mixes this pass's offset with the
last pass's size, is right in the pass that emits. `Addresses` says which
label a function's address belongs to at every moment of both passes, which is
what `CallsLand` needs for functions defined after their call, or twice.

`Lexer_proofs` (assuming `LexerAssumption`: texts and operators are character
sequences, no operator is empty or holds the zero character, and the quote is an
operator): `ScanAdvances`, `NamesAreUnique`, `PositionsAreExact`,
`TablesNeverOverflow`, `TokensAreTheWords` and `RefusalsAreRight`. The first is
an action property: every step of the scan takes a character at least, so there is no empty lexeme
and the scan ends. It needs that a running lexer stands neither on a blank nor
on a comment (`CursorInv`), and that a name is not read from a quote, because
the quote is an operator. For the second, `TableInv` adds to `NamesUnique` that
the tokens are a sequence and the names one of sequences; it holds at every
capacity, since a name that finds no room gets `NULL_IDENTIFIER`. The third has
the hypothesis that no lexeme holds a line break (`OneLineEach`): `skipSpaces`
counts only what it skips, so behind a string of two lines positions are off,
and TLC shows it as soon as an instance has one. Its invariant `PlaceInv` says
of the cursor what `PositionsExact` says of tokens; the lemma `MovesOn` adds the
line breaks of what was skipped to those before, which are disjoint, and finds
the last of them in the new part or, when there is none, where it was
(`LastExists`, by well-founded induction). `TablesNeverOverflow` says of names
and arena, too, what `RefusesOnlyTooLong` says of an accepted text's tokens.

The last two hold of any vocabulary that meets `VocabularyAssumption`, which
says when a text can be read back at all. Operators spelled alike are the same
one, as in the table of `Context.h`; a unit is spelled as its words; a name
neither is nor begins with the spelling of an operator, since `findOperator` is asked first; in
a unit, and where units touch, a word ends before the next one begins; what
separates units is blanks and comments that are closed. TLC evaluates it for the
units of the run. A text is a `Draft` while it is written: its words lie at known
places behind blank gaps, and each ends before the character behind it. Adding
a unit leaves that true (`Extended`), the quotes too, which decide how a name
ends. The draft becomes the text (`Whole`), and `Scanned` says of a running
lexer that the tokens are the first words and the cursor is on the next one.
Each step finds just that word: the longest operator is the word itself because
a longer one would go on behind it (`OperatorFound`), a name or a number is
never an operator (`NoOperator`), and both end where the word does
(`NameEnds`, `NumberEnds`); `skipSpaces` then stops on the next word or at the
end (`SkipGap`, `SkipEnd`). So a text that is refused for its length is one with
as many words as the array has tokens.

`ArgvProcessor_proofs` (assuming that full names differ, that letters do, and
that no option has the short name another has as its full name, which the
registrations of both `main.c` meet): `NeverOnAValue`, `LinesReadAreAccepted`
and `StoredAsMeant`, that is all the scanner promises. `OnNoValue` speaks of every set of words that could be the
values of the line, so the scan has to agree with all of them; the invariant
`Counted` says that inside a word the words taken are those the letters scanned
are owed (`OwedUpTo`) and are there, so that when the scan leaves a word it
stands behind exactly the values of that word.
For the other two the scan is compared with a reading of the line that looks for
no position. `ReadInv` says that the places reached so far (`Reached`) name
options that are registered and have their values (`Legible`), with different
short names (`Apart`), and that the flags are those options with those values,
one for each place (`Stored`); that the default arguments are the plain words
passed, as many as fit (`LeftOver`); and that where the scan has given up the
line cannot be read. A step reaches one place more (`ReadsMore`) or gives up for
a reason (`RefusesRightly`, `UnreadPlace`; that a full array of flags is such a
reason is the pigeon hole principle, `EnoughFlags`). That the reading exists,
one set of values for each line, is proved by a least counterexample
(`ValuesExist`): the recursion over the line it needs cannot be written as an
induction here.

`Stdlib_proofs` (assuming that numbers printed are numbers, that characters are
bytes, and that `Infinity` is a million at least, the largest divisor six
decimals need): `LinesStayInBuffer` and `NumbersComeBack`.
The invariant `Fits` counts digits: while the integer part is written, what is
left of a number below 10^9 has no more digits than there are places between
the start of the buffer and `r12`, the first one kept for the sign.
`NumbersComeBack` is `PipeKeepsNumbers` for any numbers printed, any number of
them, and every interleaving of the two programs. Its hypothesis is that they
have at most thirteen digits before the point (`Narrow`): the model has places
for those, four of them under the buffer; from ten digits on the code writes
there. `WriterInv` says place by place which character of the line is in the
buffer, whatever was there before. `PipeInv` says that what the reader has taken
and what is in the pipe are the lines of the numbers printed, and which place of
a line the reader is at: its registers then hold the digits up to there
(`Progress`, `FirstAdvances`, `IntegerAdvances`, `FractionAdvances`), so at the
end of a line the number itself (`LineRead`). Registers of the model stop at
`Infinity`, so the property is about numbers below it, and `Infinity` is any
number from a million on.

The other invariants were checked with TLC on the instances of the runs before
they were proved. In `Scanned`, `Draft` and `PipeInv` something exists that TLC
would have to look for among all sequences of places or characters; of these it
checked the parts, and the properties that follow.

Left to TLC: liveness (`ProgramStops`, `SPUStops`, `ReadEnds`); everything that
compares with `MoneySemantics` or is stated over trees, whose operators are
recursive; `ReadsNumeral`, which sums over a text of any length;
`RunsPresentText`, which is about the command lines of the instance.

## 5. Not modelled

- Rounding and formatting of doubles, except for the six digits of the AST
  file: numbers of the programs are integers, those of `Stdlib` decimals. NaN,
  infinities and integers from 2^63 are left out of the runtime for that reason.
- The lexer's buffer of 128 characters for a lexeme, and the bytes of `₽`;
  sizes of the IR array, of the text buffers and of the variables stack, which
  are asserted or not looked at: past them the behaviour is undefined.
- AST files that the program did not write itself; texts of error messages.
- Byte encodings of instructions beyond their length; that the address of
  `__stdlib_out` is read from `stdlib.elf` as a single byte
  (backend_x86_64.c:134), so that it has to be below 256.
- Control falling off the end of a function without `Pay`, and functions
  called above their declaration that use a global declared in between, whose
  word does not exist yet: the language does not say what such programs mean,
  and the programs of the runs have none.
- Whether two labels of the SPU code can be spelled alike; what the SPU
  processor does with a call of the wrong number of arguments, which its back
  end does not count. The processor lives in another repository.
- Output files that cannot be opened, negative sizes on the command line,
  `TYPE_FLOAT` options, which neither program registers.
- Comments, listings, dumps, the help text and the logger: pure output.

## 6. Plan

1. *(done)* variables stack, converter, machine, composition, two passes.
2. *(done)* lexer, parser against the grammar, AST file, reverse front end and
   the round trips of the front end.
3. *(done)* SPU back end and its machine, compared with `MoneySemantics`;
   options; both drivers and scripts; the loops of the runtime.
4. *(done)* proofs: addresses and layout of the x86 back end, addresses of the
   SPU back end and its walk, the refinement of lexical scopes and the search,
   the converter against the stack and the translator, both passes, the lexer's
   words, tables, positions and progress, the options scan against the line's
   meaning, the line buffer and what passes through the pipe.
5. Left: the whole pipeline on one program, from characters to output.
