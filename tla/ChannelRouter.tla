---------------------------- MODULE ChannelRouter ----------------------------
(***************************************************************************)
(* What the crossbar promises the threads around it, in each direction:    *)
(* a message written to input i and bound for output o leaves at output o, *)
(* once, and messages with the same input and output keep their order.     *)
(* Nothing is promised between messages of different inputs or outputs.    *)
(***************************************************************************)
EXTENDS Sequences

CONSTANTS
  Dir,      \* the directions
  Chan,     \* inputs and outputs of a direction
  Message   \* records with fields chan, the input, and to, the output

VARIABLES
  input,    \* input[d][i]: messages waiting at input i (at most one)
  queue,    \* queue[d][i][o]: messages from i to o inside the router
  output    \* output[d][o]: messages waiting at output o (at most one)

vars == <<input, queue, output>>

Init ==
  /\ input = [d \in Dir |-> [i \in Chan |-> {}]]
  /\ queue = [d \in Dir |-> [i \in Chan |-> [o \in Chan |-> <<>>]]]
  /\ output = [d \in Dir |-> [o \in Chan |-> {}]]

Put(d, i) ==
  /\ input[d][i] = {}
  /\ \E m \in Message : m.chan = i /\ input' = [input EXCEPT ![d][i] = {m}]
  /\ UNCHANGED <<queue, output>>

Enter(d, i) ==
  /\ \E m \in input[d][i] :
       queue' = [queue EXCEPT ![d][i][m.to] = Append(@, m)]
  /\ input' = [input EXCEPT ![d][i] = {}]
  /\ UNCHANGED output

Leave(d, i, o) ==
  /\ queue[d][i][o] # <<>>
  /\ output[d][o] = {}
  /\ output' = [output EXCEPT ![d][o] = {Head(queue[d][i][o])}]
  /\ queue' = [queue EXCEPT ![d][i][o] = Tail(@)]
  /\ UNCHANGED input

Get(d, o) ==
  /\ output[d][o] # {}
  /\ output' = [output EXCEPT ![d][o] = {}]
  /\ UNCHANGED <<input, queue>>

Next ==
  \E d \in Dir :
    \/ \E i \in Chan : Put(d, i) \/ Enter(d, i)
    \/ \E i, o \in Chan : Leave(d, i, o)
    \/ \E o \in Chan : Get(d, o)

Spec == Init /\ [][Next]_vars
=============================================================================
