-------------------------------- MODULE Shell --------------------------------
(***************************************************************************)
(* daemons/interactive.py: the interactive shell.  One thread reads the    *)
(* routing socket, parses each packet and puts the outcome on a queue; the *)
(* main thread reads lines and runs commands, one of which, msgs, empties  *)
(* the queue.                                                              *)
(*                                                                         *)
(* A line is a sequence of words.  A word is <<text>>, or <<key, value>>   *)
(* where the user typed key=value; <<"">> is the empty word between two    *)
(* blanks.  Names that reach attributes of Commands which are no commands  *)
(* (sock, run_command, add_vif as one word) are not among the lines.       *)
(***************************************************************************)
EXTENDS Igmp, FiniteSets

CONSTANTS
    Line,       \* the lines the user may type
    Number,     \* texts of digits
    Address,    \* texts ip_address() accepts
    MaxQueue    \* bound on the messages in the queue (the code has none)

ASSUME ShellAssumption ==
    /\ MaxQueue \in Nat
    /\ "1" \in Number /\ "0.0.0.0" \in Address

ASSUME TextAssumption == "" \notin Number \cup Address

\* A line is one word at least, a word a text or a key and its value.
ASSUME LineAssumption ==
    /\ Line \subseteq Seq(Seq(STRING))
    /\ \A line \in Line : line # <<>> /\ \A i \in DOMAIN line : Len(line[i]) \in {1, 2}

VARIABLES
    queue,      \* Commands.queue
    main,       \* where the main thread is
    owed,       \* messages msgs has announced and not printed yet
    request     \* history: the call of kernel.py the last line made, if any

vars == <<rx, queue, main, owed, request>>

NoRequest == [line |-> <<>>, name |-> <<>>, bound |-> <<>>]
Empty == <<"">>

(***************************************************************************)
(* The commands: their parameters, and what running them does.             *)
(***************************************************************************)
Required(name, kind) == [name |-> name, kind |-> kind, required |-> TRUE, default |-> Empty]
Optional(name, kind, default) ==
    [name |-> name, kind |-> kind, required |-> FALSE, default |-> default]
Command(name, params, effect) == [name |-> name, params |-> params, effect |-> effect]

Route == <<Required("origin", "address"), Required("mcastgroup", "address"),
           Required("parent", "int")>>
Membership == <<Required("multiaddr", "address"), Required("interface", "address")>>

Commands == {
    Command(<<"bye">>, <<>>, "exit"),
    Command(<<"list", "vifs">>, <<>>, "print"),
    Command(<<"list", "mfc">>, <<>>, "print"),
    Command(<<"help">>, <<Required("command", "any"),
                          Optional("subcommand", "any", Empty)>>, "print"),
    Command(<<"status">>, <<>>, "print"),
    Command(<<"msgs">>, <<>>, "msgs"),
    Command(<<"flush">>, <<>>, "kernel"),
    Command(<<"add", "vif">>, <<Required("vif_index", "int"),
                                Required("interface_addr_or_indx", "int or address"),
                                Optional("remote_addr", "address", <<"0.0.0.0">>),
                                Optional("ttl_threshold", "int", <<"1">>)>>, "kernel"),
    Command(<<"add", "mfc">>, Append(Route, Optional("ttls", "ints", Empty)), "kernel"),
    \* VifCtl and MfcCtl are made with a field missing: TypeError.
    Command(<<"del", "vif">>, <<Required("vif_index", "int")>>, "raise"),
    Command(<<"del", "mfc">>, Route, "raise"),
    Command(<<"add", "membership">>, Membership, "kernel"),
    Command(<<"drop", "membership">>, Membership, "kernel") }

IsKeyword(word) == Len(word) = 2

\* int(), ip_address() by VifCtl, MfcCtl and IpMreq, isdigit().
Converts(kind, word) ==
    \/ kind = "any"
    \/ kind \in {"int", "int or address", "ints"} /\ ~IsKeyword(word) /\ word[1] \in Number
    \/ kind \in {"address", "int or address"} /\ ~IsKeyword(word) /\ word[1] \in Address
    \/ kind = "ints" /\ word = Empty

\* _parse_command: the first word, or the first two.
Prefixes == {<<"list">>, <<"add">>, <<"del">>, <<"drop">>}
NameLength(line) == IF line[1] \in Prefixes THEN 2 ELSE 1
Name(line) == [i \in 1..NameLength(line) |-> IF IsKeyword(line[i]) THEN "" ELSE line[i][1]]
Calls(line, c) == Len(line) >= NameLength(line) /\ c.name = Name(line)
Arguments(line) == SubSeq(line, NameLength(line) + 1, Len(line))

(***************************************************************************)
(* _parse_raw_arguments: parameters and words are walked side by side.     *)
(***************************************************************************)
Walk(at, args, kwargs) == [at |-> at, args |-> args, kwargs |-> kwargs]
Names(params) == {params[i].name : i \in DOMAIN params}

\* Mutated form of Step: a key that names no parameter is passed over.
Step_SkipsUnknown(w, params, words, i) ==
    IF w.at # "loop" THEN w
    ELSE IF i > Len(params) THEN [w EXCEPT !.at = IF words[i] = Empty THEN "break" ELSE "error"]
    ELSE IF i > Len(words) THEN [w EXCEPT !.at = IF params[i].required THEN "error" ELSE "break"]
    ELSE IF params[i].required THEN [w EXCEPT !.args = Append(@, words[i])]
    ELSE IF ~IsKeyword(words[i]) THEN [w EXCEPT !.at = "error"]
    ELSE IF words[i][1] \in Names(params) THEN [w EXCEPT !.kwargs = Append(@, words[i])]
    ELSE w

\* A surplus word ends the walk, with an error unless it is empty.
Step(w, params, words, i) ==
    IF w.at # "loop" THEN w
    ELSE IF i > Len(params) THEN [w EXCEPT !.at = IF words[i] = Empty THEN "break" ELSE "error"]
    ELSE IF i > Len(words) THEN [w EXCEPT !.at = IF params[i].required THEN "error" ELSE "break"]
    ELSE IF params[i].required THEN [w EXCEPT !.args = Append(@, words[i])]
    ELSE IF IsKeyword(words[i]) /\ words[i][1] \in Names(params)
    THEN [w EXCEPT !.kwargs = Append(@, words[i])]
    ELSE [w EXCEPT !.at = "error"]

ParseArguments(params, words) ==
    LET n == IF Len(params) > Len(words) THEN Len(params) ELSE Len(words)
        walk[i \in 0..n] == IF i = 0 THEN Walk("loop", <<>>, <<>>)
                            ELSE Step(walk[i - 1], params, words, i)
    IN  walk[n]

\* signature.bind refuses a keyword for a parameter bound by position; of two
\* values for one key kwargs keeps the later.
Bound(params, w) ==
    [i \in DOMAIN params |->
        LET given == {j \in DOMAIN w.kwargs : w.kwargs[j][1] = params[i].name}
        IN  IF i <= Len(w.args) THEN w.args[i]
            ELSE IF given = {} THEN params[i].default
            ELSE <<w.kwargs[CHOOSE j \in given : \A k \in given : k <= j][2]>>]

Binds(params, w) ==
    /\ w.at # "error"
    /\ \A j \in DOMAIN w.kwargs, i \in 1..Len(w.args) : w.kwargs[j][1] # params[i].name

(***************************************************************************)
(* The main thread.                                                        *)
(***************************************************************************)
Running == main # "exited"

\* run_command: TypeErrors of the parsing print the usage.
Usage(line) ==
    /\ main = "prompt"
    /\ \A c \in Commands :
        ~(Calls(line, c) /\ Binds(c.params, ParseArguments(c.params, Arguments(line))))
    /\ request' = NoRequest
    /\ UNCHANGED <<rx, queue, main, owed>>

\* fn(**bn.arguments).  What it raises, the conversions and the kernel's errors
\* included, is logged and the prompt comes back.
Run(line, c) ==
    LET w == ParseArguments(c.params, Arguments(line))
        bound == Bound(c.params, w)
        converts == \A i \in DOMAIN c.params : Converts(c.params[i].kind, bound[i]) IN
    /\ main = "prompt"
    /\ Calls(line, c) /\ Binds(c.params, w)
    /\ main' = CASE c.effect = "exit" -> "exited"
                 [] c.effect = "msgs" -> "msgs"
                 [] OTHER -> "prompt"
    /\ owed' = IF c.effect = "msgs" THEN Len(queue) ELSE 0
    /\ request' = IF c.effect = "kernel" /\ converts
                  THEN [line |-> line, name |-> c.name, bound |-> bound] ELSE NoRequest
    /\ UNCHANGED <<rx, queue>>

\* Mutated form of PrintMessage: the count goes on below nothing.
PrintMessage_CountsDown ==
    /\ main = "msgs" /\ queue # <<>>
    /\ queue' = Tail(queue)
    /\ owed' = owed - 1
    /\ UNCHANGED <<rx, main, request>>

\* msgs: qsize() has been printed; then `while not empty: print(get())'.
PrintMessage ==
    /\ main = "msgs" /\ queue # <<>>
    /\ queue' = Tail(queue)
    /\ owed' = IF owed > 0 THEN owed - 1 ELSE 0
    /\ UNCHANGED <<rx, main, request>>

EndOfMsgs ==
    /\ main = "msgs" /\ queue = <<>>
    /\ main' = "prompt"
    /\ UNCHANGED <<rx, queue, owed, request>>

\* Ctrl-C anywhere exits.  At the end of the input the generator returns
\* without a yield, and the RuntimeError of that is caught by nobody.
Exit ==
    /\ Running
    /\ main' = "exited"
    /\ UNCHANGED <<rx, queue, owed, request>>

(***************************************************************************)
(* The reader thread, a daemon thread: it ends with the process.           *)
(***************************************************************************)
Recv(p) ==
    /\ Running /\ Len(queue) < MaxQueue
    /\ Receive(p)
    /\ UNCHANGED <<queue, main, owed, request>>

Filter == Running /\ Parse /\ UNCHANGED <<queue, main, owed, request>>

\* Mutated form of Put: the queue has one place, and put() waits for it.
Put_Waits ==
    /\ Running /\ rx.at \in {"object", "nothing"} /\ queue = <<>>
    /\ queue' = <<rx.at>>
    /\ rx' = Ready
    /\ UNCHANGED <<main, owed, request>>

\* None is put as well.
Put ==
    /\ Running /\ rx.at \in {"object", "nothing"}
    /\ queue' = Append(queue, rx.at)
    /\ rx' = Ready
    /\ UNCHANGED <<main, owed, request>>

\* Mutated form of Die: the messages go with the reader.
Die_DropsQueue ==
    /\ Running /\ rx.at = "raise"
    /\ Ends("dead")
    /\ queue' = <<>>
    /\ UNCHANGED <<main, owed, request>>

\* The try statement is around the loop, not in it.
Die ==
    /\ Running /\ rx.at = "raise"
    /\ Ends("dead")
    /\ UNCHANGED <<queue, main, owed, request>>

Reader == Filter \/ Put \/ Die
Msgs == PrintMessage \/ EndOfMsgs

\* _clean and the first steps are in Lifecycle.
Init ==
    /\ rx = Ready
    /\ queue = <<>>
    /\ main = "prompt"
    /\ owed = 0
    /\ request = NoRequest

Next ==
    \/ \E line \in Line : Usage(line) \/ \E c \in Commands : Run(line, c)
    \/ Msgs
    \/ Exit
    \/ \E p \in Packet : Recv(p)
    \/ Reader

\* A thread goes on with a packet it has received and with messages it prints;
\* nothing is assumed about the user and the network.
Spec == Init /\ [][Next]_vars /\ WF_vars(Reader) /\ WF_vars(Msgs)

(***************************************************************************)
(* Properties                                                              *)
(***************************************************************************)
TypeOK ==
    /\ RxType
    /\ queue \in Seq({"object", "nothing"}) /\ Len(queue) <= MaxQueue
    /\ main \in {"prompt", "msgs", "exited"}
    /\ owed \in Nat

\* However the reader's puts fall between its steps, msgs finds every message
\* it has announced.
AnnouncedArePrinted == main = "msgs" => owed <= Len(queue)

\* What reaches the kernel is what was typed: each parameter has the word at its
\* position, or a value the line gives for its name, or its default where the
\* line gives none; and every word is read, up to an empty one that ends the line.
CallsAsTyped ==
    request # NoRequest =>
        \E c \in Commands :
            LET words == Arguments(request.line)
                read == {j \in DOMAIN words : \A k \in 1..j : words[k] # Empty}
                given(i) == {words[j][2] : j \in {k \in read :
                                IsKeyword(words[k]) /\ words[k][1] = c.params[i].name}} IN
            /\ c.name = request.name
            /\ c.name = Name(request.line)
            /\ \A i \in DOMAIN c.params :
                IF c.params[i].required THEN i \in read /\ request.bound[i] = words[i]
                ELSE \/ request.bound[i][1] \in given(i)
                     \/ given(i) = {} /\ request.bound[i] = c.params[i].default
            /\ \A j \in read : \E i \in DOMAIN c.params :
                \/ c.params[i].required /\ i = j
                \/ IsKeyword(words[j]) /\ words[j][1] = c.params[i].name

\* Every packet received is dealt with: the record loop ends.
PacketsSettle == (rx.at = "header") ~> (rx.at \in {"recv", "dead"} \/ ~Running)

\* "Error in read_from_socket thread.  This will be ignored." (line 296): the
\* thread goes on reading.
ErrorsAreIgnored == rx.at # "dead"
===============================================================================
