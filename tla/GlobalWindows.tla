---------------------------- MODULE GlobalWindows ----------------------------
(***************************************************************************)
(* noQueueGlobal.cpp: every thread runs through its own records, batch     *)
(* after batch, and counts in the tables that all share.  A batch is a     *)
(* call of process_window_mem, which begins in window 0 at the present     *)
(* time.  A record is a campaign, or NoView for the other event types.     *)
(***************************************************************************)
EXTENDS CampaignWindows, FiniteSets

CONSTANTS
    ProcessCnt,          \* records of a thread
    BatchSize,
    NoView,
    Samples              \* the arrangements of records that are tried

VARIABLES
    recs,                \* the records of the threads, shuffled
    position             \* per thread: the call u and the record i in it

vars == <<windowVars, recs, position>>

\* generate makes every third record a view, shuffle permutes the records.
generated ==
    {r \in Samples : DOMAIN r = 1 .. ProcessCnt /\
       Cardinality({i \in 1 .. ProcessCnt : r[i] # NoView}) = (ProcessCnt + 2) \div 3}

Init ==
    /\ WindowInit
    /\ recs \in [Threads -> generated]
    /\ position = [t \in Threads |-> [u |-> 0, i |-> 0]]

numberOfCalls == ProcessCnt \div BatchSize
current(t) == recs[t][position[t].u * BatchSize + position[t].i + 1]

\* process_window_mem is called, or the thread has no batch left.
call(t) ==
    /\ at[t].pc = "start"
    /\ at' = [at EXCEPT ![t] = IF position[t].u = numberOfCalls THEN [@ EXCEPT !.pc = "done"]
                               ELSE [@ EXCEPT !.pc = "record", !.last = time, !.window = 0]]
    /\ UNCHANGED <<time, hashTable, resetAt, counted, raced, recs, position>>

\* The next record: the call returns after the last, and a record that is no view
\* is passed over.
record(t) ==
    /\ at[t].pc = "record"
    /\ \/ /\ position[t].i = BatchSize
          /\ at' = [at EXCEPT ![t].pc = "start"]
          /\ position' = [position EXCEPT ![t] = [u |-> @.u + 1, i |-> 0]]
       \/ /\ position[t].i < BatchSize /\ current(t) = NoView
          /\ position' = [position EXCEPT ![t].i = @ + 1]
          /\ UNCHANGED at
       \/ /\ position[t].i < BatchSize /\ current(t) # NoView
          /\ at' = [at EXCEPT ![t] = inWindow(@, 1 - @.window)]
          /\ UNCHANGED position
    /\ UNCHANGED <<time, hashTable, resetAt, counted, raced, recs>>

count(t) ==
    /\ at[t].pc = "add" /\ add(t, current(t), "record")
    /\ position' = [position EXCEPT ![t].i = @ + 1]
    /\ UNCHANGED recs

process_window_mem(t) ==
    call(t) \/ record(t) \/ (Reset(t) /\ UNCHANGED <<recs, position>>) \/ count(t)

Next ==
    \/ tick /\ UNCHANGED <<recs, position>>
    \/ \E t \in Threads : process_window_mem(t)

Spec == Init /\ [][Next]_vars
==============================================================================
