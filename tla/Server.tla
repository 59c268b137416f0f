------------------------------- MODULE Server -------------------------------
(***************************************************************************)
(* The TCP front end (carina-server/src/main.cpp): one thread per          *)
(* connection that reads frames, calls the engine through the service and  *)
(* answers.  The engine is the map of KVStore.                             *)
(*                                                                         *)
(* A frame is a length and a payload, each of a few units; TCP delivers a  *)
(* stream in pieces of any size and may break off anywhere.  Requests are  *)
(* well formed.                                                            *)
(***************************************************************************)
EXTENDS Integers, Sequences

CONSTANTS
    Connections,
    StoreKeys,
    Length, Payload,  \* units of the length field and of the payload
    MaxRequests       \* bound, per connection

ASSUME ServerAssumption == Length \in Nat \ {0} /\ Payload \in Nat \ {0} /\ MaxRequests \in Nat

VARIABLES
    sent,    \* per connection: the requests in its stream
    stream,  \* the units of it that will arrive
    broken,  \* whether it ends there
    taken,   \* the units received
    reader,  \* where the thread is, and how much of that part it has got
    answers, \* the responses, in order
    store, ops

serverVars == <<sent, stream, broken, taken, reader, answers, store, ops>>

\* PUT_VECTOR goes the way of PUT; SEARCH_VECTOR reads like GET.  A request to put, get or
\* remove with an empty key, value or vector is refused by the service.
Requests == [op : {"put", "get", "remove"}, key : StoreKeys, empty : BOOLEAN]

At(part) == [part |-> part, got |-> 0]

Engine == INSTANCE KVStore WITH Keys <- StoreKeys

ServerInit ==
    /\ sent = [c \in Connections |-> <<>>]
    /\ stream = [c \in Connections |-> 0]
    /\ broken = [c \in Connections |-> FALSE]
    /\ taken = [c \in Connections |-> 0]
    /\ reader = [c \in Connections |-> At("length")]
    /\ answers = [c \in Connections |-> <<>>]
    /\ Engine!Init

Frame == Length + Payload

\* The client, which need not wait for the answer to its last request.
Send(c) ==
    /\ ~ broken[c]
    /\ Len(sent[c]) < MaxRequests
    /\ \E r \in Requests : sent' = [sent EXCEPT ![c] = Append(@, r)]
    /\ stream' = [stream EXCEPT ![c] = @ + Frame]
    /\ UNCHANGED <<broken, taken, reader, answers, store, ops>>
Break(c) ==
    /\ ~ broken[c]
    /\ broken' = [broken EXCEPT ![c] = TRUE]
    /\ \E n \in taken[c] .. stream[c] : stream' = [stream EXCEPT ![c] = n]
    /\ UNCHANGED <<sent, taken, reader, answers, store, ops>>

Wanted(c) == IF reader[c].part = "length" THEN Length ELSE Payload
Reading(c) == reader[c].part \in {"length", "payload"}
Least(a, b) == IF a < b THEN a ELSE b

RecvOnce(c) ==  \* a mutant: one call of recv for each part
    /\ Reading(c)
    /\ \E n \in 1 .. Least(Wanted(c) - reader[c].got, stream[c] - taken[c]) :
          /\ taken' = [taken EXCEPT ![c] = @ + n]
          /\ reader' = [reader EXCEPT ![c] = IF @.part = "length" THEN At("payload") ELSE At("serve")]
    /\ UNCHANGED <<sent, stream, broken, answers, store, ops>>
\* recv returns what there is, at least one unit; readFrame asks for the rest.
Recv(c) ==
    /\ Reading(c)
    /\ \E n \in 1 .. Least(Wanted(c) - reader[c].got, stream[c] - taken[c]) :
          /\ taken' = [taken EXCEPT ![c] = @ + n]
          /\ reader' = [reader EXCEPT ![c] =
                IF @.got + n < Wanted(c) THEN [part |-> @.part, got |-> @.got + n]
                ELSE IF @.part = "length" THEN At("payload") ELSE At("serve")]
    /\ UNCHANGED <<sent, stream, broken, answers, store, ops>>

\* recv returns 0 or -1: readFrame gives up, also in the middle of a frame.
Hangup(c) ==
    /\ Reading(c)
    /\ broken[c] /\ taken[c] = stream[c]
    /\ reader' = [reader EXCEPT ![c] = At("closed")]
    /\ UNCHANGED <<sent, stream, broken, taken, answers, store, ops>>

\* The frame just read.
Request(c) == sent[c][(taken[c] - 1) \div Frame + 1]

\* A call of the service, the response and the next round of the loop.
Answer(c, ok, value) ==
    /\ answers' = [answers EXCEPT ![c] = Append(@, [to |-> Request(c), ok |-> ok, value |-> value])]
    /\ reader' = [reader EXCEPT ![c] = At("length")]
    /\ UNCHANGED <<sent, stream, broken, taken>>

RefuseSilently(c) ==  \* a mutant: the error is not sent
    /\ Request(c).empty
    /\ reader' = [reader EXCEPT ![c] = At("length")]
    /\ UNCHANGED <<sent, stream, broken, taken, answers, store, ops>>
Refuse(c) ==
    /\ Request(c).empty
    /\ UNCHANGED <<store, ops>>
    /\ Answer(c, FALSE, Engine!Absent)
PutKey(c) ==
    /\ Request(c).op = "put" /\ ~ Request(c).empty
    /\ Engine!Put(Request(c).key)
    /\ Answer(c, TRUE, ops')
RemoveKey(c) ==
    /\ Request(c).op = "remove" /\ ~ Request(c).empty
    /\ Engine!Remove(Request(c).key)
    /\ Answer(c, TRUE, Engine!Absent)
GetKey(c) ==
    /\ Request(c).op = "get" /\ ~ Request(c).empty
    /\ UNCHANGED <<store, ops>>
    /\ LET value == store[Request(c).key] IN Answer(c, value # Engine!Absent, value)
Serve(c) == reader[c].part = "serve" /\ (Refuse(c) \/ PutKey(c) \/ RemoveKey(c) \/ GetKey(c))

Step(c) == Recv(c) \/ Hangup(c) \/ Serve(c)
ServerNext == \E c \in Connections : Send(c) \/ Break(c) \/ Step(c)

ServerSpec == ServerInit /\ [][ServerNext]_serverVars

\* Threads keep running.
FairServerSpec == ServerSpec /\ \A c \in Connections : WF_serverVars(Step(c))

-----------------------------------------------------------------------------
(* Properties.                                                             *)

\* However TCP cuts the stream: the answers are those to the requests that have arrived
\* whole, in their order; a frame that broke off has no effect and no answer.
AnswersInOrder ==
    \A c \in Connections :
        /\ Len(answers[c]) <= taken[c] \div Frame
        /\ \A i \in 1 .. Len(answers[c]) : answers[c][i].to = sent[c][i]

\* Every request that arrives whole is answered.
RequestsAnswered ==
    \A c \in Connections, n \in 1 .. MaxRequests :
        stream[c] >= n * Frame ~> Len(answers[c]) >= n \/ stream[c] < n * Frame

=============================================================================
