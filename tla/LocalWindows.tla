----------------------------- MODULE LocalWindows -----------------------------
(***************************************************************************)
(* noQueueLocal.cpp: every thread counts its views in two tables of its    *)
(* own and adds the table of its last window to finalResultHT, one bucket  *)
(* at a time, while the others count or merge.  finalResultHT is allocated *)
(* without being initialised: it begins as whatever the memory holds.      *)
(***************************************************************************)
EXTENDS Integers, FiniteSets

CONSTANTS
    Threads,
    CampaingCnt,
    WindowSizeInSec,
    MaxTime,             \* bound on the clock, in seconds
    ProcessCnt,          \* records of a thread
    NoView,              \* a record that is no view; the others are campaigns
    Samples,             \* the arrangements of records that are tried
    Garbage              \* what a bucket of finalResultHT may hold at first

VARIABLES
    time,                \* time(NULL)
    recs,                \* the records of the threads, shuffled
    hashTable,           \* per thread: hashTable[htNo] and hashTable[htNo + 1]
    resetAt,             \* their time stamps
    thread,              \* the locals of process_window_mem_local
    finalResultHT,
    memory,              \* history: finalResultHT before the threads started
    switchedAt           \* history: per thread, the record that began its window

vars == <<time, recs, hashTable, resetAt, thread, finalResultHT, memory, switchedAt>>

Buckets == 0 .. CampaingCnt - 1
Zero == [b \in Buckets |-> 0]

generated ==
    {r \in Samples : DOMAIN r = 1 .. ProcessCnt /\
       Cardinality({i \in 1 .. ProcessCnt : r[i] # NoView}) = (ProcessCnt + 2) \div 3}

Init ==
    /\ time = 1
    /\ recs \in [Threads -> generated]
    /\ hashTable = [t \in Threads |-> [w \in 0 .. 1 |-> Zero]]
    /\ resetAt = [t \in Threads |-> [w \in 0 .. 1 |-> 0]]
    /\ thread = [t \in Threads |-> [pc |-> "start", i |-> 1, last |-> 0, window |-> 0, merged |-> 0]]
    /\ finalResultHT \in [Buckets -> Garbage] /\ memory = finalResultHT
    /\ switchedAt = [t \in Threads |-> 1]

tick ==
    /\ time < MaxTime /\ time' = time + 1
    /\ UNCHANGED <<recs, hashTable, resetAt, thread, finalResultHT, memory, switchedAt>>

newWindow(last) == last # time /\ time % WindowSizeInSec = 0
bucketPos(campaign) == (campaign * 789 + 321) % CampaingCnt

start(t) ==
    /\ thread[t].pc = "start"
    /\ thread' = [thread EXCEPT ![t].pc = "record", ![t].last = time]
    /\ UNCHANGED <<time, recs, hashTable, resetAt, finalResultHT, memory, switchedAt>>

\* A record: what is no view is passed over, a new window clears the other table.
\* The tables belong to the thread alone, so that this is one step.
record(t) ==
    LET r == thread[t]
        view == recs[t][r.i] # NoView
        new == view /\ newWindow(r.last)
        w == IF new THEN 1 - r.window ELSE r.window
        table == IF new /\ resetAt[t][w] # time THEN Zero ELSE hashTable[t][w]
        b == bucketPos(recs[t][r.i])
    IN  /\ r.pc = "record" /\ r.i <= ProcessCnt
        /\ hashTable' = IF view THEN [hashTable EXCEPT ![t][w] = [table EXCEPT ![b] = @ + 1]]
                        ELSE hashTable
        /\ resetAt' = IF new THEN [resetAt EXCEPT ![t][w] = time] ELSE resetAt
        /\ thread' = [thread EXCEPT ![t].i = @ + 1, ![t].window = w,
                                    ![t].last = IF new THEN time ELSE @]
        /\ switchedAt' = IF new THEN [switchedAt EXCEPT ![t] = r.i] ELSE switchedAt
        /\ UNCHANGED <<time, recs, finalResultHT, memory>>

\* Mutant: the other window is merged.
lastWindowOther(t) == hashTable[t][1 - thread[t].window]
lastWindow(t) == hashTable[t][thread[t].window]

\* finalResultHT[i] += ..., atomically, one bucket after the other.
merge(t) ==
    LET b == thread[t].merged IN
    /\ thread[t].pc = "record" /\ thread[t].i = ProcessCnt + 1 /\ b < CampaingCnt
    /\ finalResultHT' = [finalResultHT EXCEPT ![b] = @ + lastWindow(t)[b]]
    /\ thread' = [thread EXCEPT ![t].merged = b + 1]
    /\ UNCHANGED <<time, recs, hashTable, resetAt, memory, switchedAt>>

process_window_mem_local(t) == start(t) \/ record(t) \/ merge(t)

Next == tick \/ \E t \in Threads : process_window_mem_local(t)

Spec == Init /\ [][Next]_vars
----------------------------------------------------------------------------

\* The views of thread t in its last window that fall into bucket b.
viewsIn(t, b) ==
    {i \in switchedAt[t] .. ProcessCnt : recs[t][i] # NoView /\ bucketPos(recs[t][i]) = b}

\* A bucket of the final table holds, over what the memory held before, the views
\* of the last window of every thread that has merged the bucket: wherever the
\* window of each began, and in whatever order they merge.
FinalExact ==
    \A b \in Buckets :
      finalResultHT[b] =
        memory[b]
          + Cardinality(UNION {{<<t, i>> : i \in viewsIn(t, b)} :
                                 t \in {u \in Threads : thread[u].merged > b}})
===============================================================================
