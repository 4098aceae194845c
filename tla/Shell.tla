------------------------------- MODULE Shell -------------------------------
(***************************************************************************)
(* shell/shell.cpp: the receive interrupt, the line editor getLine, the    *)
(* splitting into words by _strtok, the lookup of the command and its      *)
(* call, in the thread that Shell::process runs in.  A command takes time, *)
(* up to two seconds for a query, in which characters wait in the Queue.   *)
(*                                                                         *)
(* line[] is the string up to its first NUL: what is behind it is zero     *)
(* whenever getLine is called.  A control character that the editor        *)
(* ignores, the output, and the upper case that strncasecmp takes for      *)
(* lower are left out.                                                     *)
(***************************************************************************)
EXTENDS Mailbox, SequencesExt

CONSTANTS
    BLANK, ERASE, CR, EOT,      \* ' ' (a tab never gets into the line), 8 and 127, '\r', ^D
    SHELL_MAX_LINE_LEN,
    SHELL_MAX_ARGUMENTS,
    Commands,                   \* m_defaultCmd and then m_custCmd: [name, does]
    ON, OFF,                    \* the arguments of echo
    Inputs                      \* bound: what is typed, a set of sequences

ASSUME ShellAssumption ==
    /\ SHELL_MAX_LINE_LEN \in Nat \ {0} /\ SHELL_MAX_ARGUMENTS \in Nat
    /\ Commands \in Seq([name : Seq(Chars), does : STRING])
    /\ \A s \in Inputs : s \in Seq(Chars)

VARIABLES
    typing,     \* what is still to be typed
    line,       \* line[]
    running,    \* a command is being executed
    m_exit, m_echo,
    called      \* history: the commands called, with their arguments

shellVars == <<line, running, m_exit, m_echo, called>>
vars == <<mailboxVars, typing, shellVars>>

Init ==
    /\ MailboxInit
    /\ typing \in Inputs
    /\ line = << >>
    /\ running = FALSE
    /\ m_exit = FALSE /\ m_echo = TRUE
    /\ called = << >>

rxInterrupt ==
    /\ typing # << >>
    /\ typing' = Tail(typing)
    /\ IsrPut(Head(typing))
    /\ UNCHANGED shellVars

Kernel == PopReq /\ UNCHANGED <<typing, shellVars>>

WaitForChar == ~ running /\ ~ m_exit /\ Get /\ UNCHANGED <<typing, shellVars>>

-----------------------------------------------------------------------------
(* getLine: the line after an editing character, and after the end of one *)

(* Mutant: the terminating NUL is not left room for. *)
EditedToTheEnd(str, key) ==
    IF key = ERASE THEN (IF str = << >> THEN str ELSE Front(str))
    ELSE IF Len(str) < SHELL_MAX_LINE_LEN THEN Append(str, key) ELSE str

Edited(str, key) ==
    IF key = ERASE THEN (IF str = << >> THEN str ELSE Front(str))
    ELSE IF Len(str) < SHELL_MAX_LINE_LEN - 1 THEN Append(str, key) ELSE str

Ended(str, key) == IF key = EOT THEN << >> ELSE str

(* _strtok, called until it returns NULL: skips blanks, takes what is not
   blank, and goes on behind the blank that it overwrites. *)
_strtok(str) ==
    LET Word(p) == {q \in p..Len(str) : \A i \in p..q : str[i] # BLANK}
        Tokens[p \in 1..(Len(str) + 2)] ==
            IF p > Len(str) THEN << >>
            ELSE IF str[p] = BLANK THEN Tokens[p + 1]
            ELSE LET last == p + Cardinality(Word(p)) - 1
                 IN  <<SubSeq(str, p, last)>> \o Tokens[last + 2]
    IN  Tokens[1]

(* findCommand: the first entry whose whole name the word begins with *)
Matches(word, k) == IsPrefix(Commands[k].name, word)
findCommand(word) == {k \in DOMAIN Commands :
    Matches(word, k) /\ \A j \in 1..(k - 1) : ~ Matches(word, j)}

cmdEcho(args) ==
    IF args = << >> THEN ~ m_echo
    ELSE IF IsPrefix(ON, args[1]) THEN TRUE
    ELSE IF IsPrefix(OFF, args[1]) THEN FALSE ELSE m_echo

Call(k, args) ==
    /\ called' = Append(called, [command |-> k, args |-> args])
    /\ running' = TRUE
    /\ m_exit' = (m_exit \/ Commands[k].does = "exit")
    /\ m_echo' = IF Commands[k].does = "echo" THEN cmdEcho(args) ELSE m_echo

(* What Queue.get returned last *)
ch == taken[Len(taken)]
Ends(key) == key \in {CR, EOT}

Edit ==
    /\ ~ Ends(ch)
    /\ line' = Edited(line, ch)
    /\ UNCHANGED <<running, m_exit, m_echo, called>>

(* An empty line, too many arguments and an unknown name call nothing. *)
Entered == _strtok(Ended(line, ch))
Found == IF Len(Entered) \in 1..(SHELL_MAX_ARGUMENTS + 1) THEN findCommand(Entered[1]) ELSE {}
CallFound ==
    \/ \E k \in Found : Call(k, Tail(Entered))
    \/ Found = {} /\ UNCHANGED <<running, m_exit, m_echo, called>>

(* Mutant: a line without a command to call is not cleared. *)
ExecuteKeepsLine ==
    /\ Ends(ch)
    /\ line' = IF Found = {} THEN Ended(line, ch) ELSE << >>
    /\ CallFound

Execute == Ends(ch) /\ line' = << >> /\ CallFound

process == Done /\ (Edit \/ Execute) /\ UNCHANGED typing

Return ==
    /\ running /\ psq = << >>
    /\ running' = FALSE
    /\ UNCHANGED <<mailboxVars, typing, line, m_exit, m_echo, called>>

Next == rxInterrupt \/ Kernel \/ WaitForChar \/ process \/ Return

Spec == Init /\ [][Next]_vars

(* The kernel comes right after the interrupt; the thread gets its turns,
   and every command returns (QueryReturns of QueryWait). *)
FairSpec == Spec /\ WF_vars(Kernel) /\ WF_vars(WaitForChar \/ process \/ Return)

-----------------------------------------------------------------------------
(* Properties *)

(* The fields keep to their types, and line[] has room for its NUL. *)
TypeOK ==
    /\ MailboxTypeOK
    /\ typing \in Seq(Chars)
    /\ line \in Seq(Chars) /\ Len(line) < SHELL_MAX_LINE_LEN
    /\ running \in BOOLEAN /\ m_exit \in BOOLEAN /\ m_echo \in BOOLEAN

(* The numbers of S in their order *)
Ascending(S) == [n \in 1..Cardinality(S) |->
    CHOOSE i \in S : Cardinality({j \in S : j < i}) = n - 1]

(* The reference: what was taken is cut at each end of a line, every line is
   edited, and its maximal runs of other characters than blanks are a
   command and its arguments. *)
EndsOf(s) == Ascending({i \in DOMAIN s : Ends(s[i])})
Begin(s, k) == IF k = 1 THEN 1 ELSE EndsOf(s)[k - 1] + 1
Typed(s, k) ==
    LET end == EndsOf(s)[k]
    IN  IF s[end] = EOT THEN << >>
        ELSE FoldLeft(Edited, << >>, SubSeq(s, Begin(s, k), end - 1))

Starts(str) == {i \in DOMAIN str : str[i] # BLANK /\ (i = 1 \/ str[i - 1] = BLANK)}
WordAt(str, i) ==
    SubSeq(str, i, CHOOSE e \in i..Len(str) :
        /\ \A j \in i..e : str[j] # BLANK
        /\ e = Len(str) \/ str[e + 1] = BLANK)
Words(str) ==
    LET starts == Ascending(Starts(str))
    IN  [n \in DOMAIN starts |-> WordAt(str, starts[n])]

CallsOf(str) ==
    LET words == Words(str)
        known == IF words = << >> THEN {}
                 ELSE {k \in DOMAIN Commands : Matches(words[1], k)}
    IN  IF known = {} \/ Len(words) > SHELL_MAX_ARGUMENTS + 1 THEN << >>
        ELSE <<[command |-> CHOOSE k \in known : \A j \in known : k <= j,
                args |-> Tail(words)]>>

Consumed == IF task = "received" THEN Front(taken) ELSE taken

(* The commands that were called are those of the lines in what the Queue
   gave, none twice, none made of two lines, whatever came while one ran. *)
RunsWhatWasTyped ==
    called = FlattenSeq([k \in DOMAIN EndsOf(Consumed) |-> CallsOf(Typed(Consumed, k))])

(* What the interrupt has put is processed, unless exit ended the thread. *)
InputIsConsumed == queue # << >> ~> m_exit \/ (queue = << >> /\ task # "received")
=============================================================================
