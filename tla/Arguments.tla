----------------------------- MODULE Arguments -----------------------------
(***************************************************************************)
(* The command line of a new process (userprog/process.c): load() cuts it  *)
(* into words with strtok_r() and setup_stack() pushes them on the user    *)
(* stack.  A stack is the stack pointer and the bytes above it; a word     *)
(* takes four bytes, of which the first stands for its value.              *)
(*                                                                         *)
(* Neither the array `arguments' of load() nor the array `argv' of         *)
(* setup_stack() is initialised: what the code reads past the last word of *)
(* either is any value of Uninitialised.  The page at the top of user      *)
(* memory is the only one that is mapped by then.                          *)
(***************************************************************************)
EXTENDS Integers, Sequences, SequencesExt, Strings

CONSTANTS
  Lines,         \* command lines
  MAX_ARGS,      \* elements of `arguments' and `argv', 32 in the code
  STACK_TOP,     \* PHYS_BASE
  STACK_SIZE     \* PGSIZE

ASSUME ArgumentsAssumption ==
  /\ MAX_ARGS \in Nat \ {0} /\ STACK_TOP \in Nat /\ STACK_TOP % 4 = 0
  /\ STACK_SIZE \in 1..STACK_TOP

SPACE == 9
Wild == -1         \* a word that nothing was assigned to and that is not null
Part == -2         \* the other bytes of a word
Uninitialised == {NULL_POINTER, Wild}

VARIABLE started   \* the process that was started: its line and its stack
-----------------------------------------------------------------------------
\* The loop of load(): the line, cut in place, and where the words are.
RECURSIVE Cut_words(_, _, _)
Cut_words(line, s, arguments) ==
  LET r == strtok_r(line, s, {SPACE})
  IN IF r.token = NULL_POINTER THEN [line |-> r.mem, arguments |-> arguments]
     ELSE Cut_words(r.mem, r.save, Append(arguments, r.token))

\* Bytes that go on top of the stack.
Push(stack, bytes) ==
  LET esp == stack.esp - Len(bytes)
  IN [esp |-> esp, mem |-> [a \in esp..(STACK_TOP - 1) |->
        IF a < stack.esp THEN bytes[a - esp + 1] ELSE stack.mem[a]]]

\* Fault: the terminator of a string is not counted.
push_string_short(stack, text) == Push(stack, text)

\* *esp -= strlen + 1; memcpy (*esp, argument, strlen + 1)
push_string(stack, text) == Push(stack, Append(text, NUL))
push_word(stack, value) == Push(stack, <<value, Part, Part, Part>>)
round_down(stack) == Push(stack, [i \in 1..(stack.esp % 4) |-> NUL])

\* From the last string to the first: the stack and the addresses.
RECURSIVE push_strings(_, _)
push_strings(r, texts) ==
  IF texts = <<>> THEN r
  ELSE LET s == push_string(r.stack, Last(texts))
       IN push_strings([stack |-> s, argv |-> <<s.esp>> \o r.argv], Front(texts))

\* argv[argc], which nothing was assigned to, then the rest.  The return
\* address is the word that argv[argc] points to by then, the same one.
setup_stack(texts, sentinel) ==
  LET empty == [esp |-> STACK_TOP, mem |-> [a \in {} |-> 0]]
      r == push_strings([stack |-> empty, argv |-> <<>>], texts)
      array == FoldRight(LAMBDA v, s : push_word(s, v), Append(r.argv, sentinel), round_down(r.stack))
  IN push_word(push_word(push_word(array, array.esp), Len(texts)), sentinel)

\* A line of no word leaves argc unassigned, one of MAX_ARGS words or more
\* goes past the end of an array, and a word after the last that is not null
\* is taken for a string: undefined behaviour.  A push below the page faults
\* in the kernel.
load_arguments(line, beyond, sentinel) ==
  LET r == Cut_words(Append(line, NUL), 1, <<>>)
      texts == [i \in 1..Len(r.arguments) |-> Text(r.line, r.arguments[i])]
      stack == setup_stack(texts, sentinel)
  IN IF Len(texts) \notin 1..(MAX_ARGS - 1) \/ beyond # NULL_POINTER
     THEN [status |-> "undefined"]
     ELSE IF stack.esp < STACK_TOP - STACK_SIZE THEN [status |-> "fault"]
     ELSE [status |-> "runs", esp |-> stack.esp, mem |-> stack.mem]

NoStart == [status |-> "none"]
ArgumentsInit == started = NoStart
start_process(line, beyond, sentinel) ==
  /\ started = NoStart
  /\ started' = [line |-> line, beyond |-> beyond] @@ load_arguments(line, beyond, sentinel)
ArgumentsNext ==
  \E line \in Lines, beyond, sentinel \in Uninitialised : start_process(line, beyond, sentinel)
ArgumentsSpec == ArgumentsInit /\ [][ArgumentsNext]_started
-----------------------------------------------------------------------------
\* The words of a line: its longest stretches without a space.
Words(line) ==
  LET starts == {i \in 1..Len(line) : line[i] # SPACE /\ (i = 1 \/ line[i - 1] = SPACE)}
      stop(i) == First({j \in i..(Len(line) + 1) : j > Len(line) \/ line[j] = SPACE})
      nth(k) == CHOOSE i \in starts : Cardinality({j \in starts : j < i}) = k - 1
  IN [k \in 1..Cardinality(starts) |-> SubSeq(line, nth(k), stop(nth(k)) - 1)]

\* The bytes that the words take, in whole words, with argv, its sentinel,
\* the pointer to it, argc and the return address.
StackNeed(line) ==
  LET letters == Cardinality({i \in 1..Len(line) : line[i] # SPACE})
      words == Len(Words(line))
  IN 4 * ((letters + words + 3) \div 4) + 4 * (words + 1) + 12

UserText(a) ==
  LET ends == {b \in a..(STACK_TOP - 1) : started.mem[b] = NUL} \cup {STACK_TOP}
  IN [k \in 1..((CHOOSE b \in ends : \A c \in ends : b <= c) - a) |-> started.mem[a + k - 1]]

UserArgc == started.mem[started.esp + 4]
UserArgv == started.mem[started.esp + 8]
Argument(i) == started.mem[UserArgv + 4 * i]

\* main() of a process that starts finds the words of the command line,
\* however many spaces separate them: the stack pointer is aligned, argc
\* counts them, argv points to pointers to them, and no push overwrote another.
\* A line of one word to MAX_ARGS - 1 words that needs no more than the page
\* does start, if the element of `arguments' after the words is null; every
\* other line is undefined behaviour or a fault.
ArgumentsRight ==
  started # NoStart =>
    LET words == Words(started.line)
    IN /\ started.status = "runs" <=> /\ Len(words) \in 1..(MAX_ARGS - 1)
                                   /\ started.beyond = NULL_POINTER
                                   /\ StackNeed(started.line) <= STACK_SIZE
       /\ started.status = "runs" =>
            /\ started.esp % 4 = 0 /\ UserArgc = Len(words) /\ UserArgv % 4 = 0
            /\ \A i \in 1..UserArgc : UserText(Argument(i - 1)) = words[i]

\* "the first iteration will push the null-pointer sentinel" (process.c:711),
\* so that argv[argc] is null, which the tests args-*.ck look at.
SentinelNull == started.status = "runs" => Argument(UserArgc) = NULL_POINTER

\* No line makes the kernel read an element that nothing was assigned to or
\* go past the end of an array.
LineDefined == started.status # "undefined"
=============================================================================
