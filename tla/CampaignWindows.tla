--------------------------- MODULE CampaignWindows ---------------------------
(***************************************************************************)
(* The window of the hand-written programs in hardcoded_cpp: views are     *)
(* counted per campaign in one of two hash tables that all threads share.  *)
(* A thread that meets a new window changes the table; the first to do so  *)
(* clears it, and leaves the time of the reset after the last bucket.      *)
(* Nothing orders the reset of one thread and the counts and resets of the *)
(* others, so every access to a table is a step of its own.                *)
(***************************************************************************)
EXTENDS Integers

CONSTANTS
    Threads,             \* the threads that count
    CampaingCnt,         \* campaingCnt, the number of buckets
    WindowSizeInSec,
    MaxTime              \* bound on the clock, in seconds

VARIABLES
    time,                \* time(NULL)
    hashTable,           \* the buckets of the two tables
    resetAt,             \* hashTable[w][campaingCnt] of both
    at,                  \* per thread: the locals of its window, and its place
    counted,             \* history: per table, the views counted in it since the
                         \* first reset with a newer time stamp than all before
    raced                \* history: tables that have lost views since: one was counted
                         \* while another thread cleared the table, or a thread has
                         \* reset it again, with the same or an older time stamp

windowVars == <<time, hashTable, resetAt, at, counted, raced>>

Buckets == 0 .. CampaingCnt - 1
Zero == [b \in Buckets |-> 0]

WindowInit ==
    /\ time = 1
    /\ hashTable = [w \in 0 .. 1 |-> Zero] /\ resetAt = [w \in 0 .. 1 |-> 0]
    /\ at = [t \in Threads |-> [pc |-> "start", window |-> 0, last |-> 0, timeStamp |-> 0,
                                filled |-> 0]]
    /\ counted = [w \in 0 .. 1 |-> Zero] /\ raced = {}

\* The clock goes on.
tick ==
    /\ time < MaxTime /\ time' = time + 1
    /\ UNCHANGED <<hashTable, resetAt, at, counted, raced>>

newWindow(last) == last # time /\ time % WindowSizeInSec = 0
bucketPos(campaign) == (campaign * 789 + 321) % CampaingCnt

\* The thread whose record is r meets the clock: it goes to window w if a new one
\* begins, and stays in r.window otherwise.
inWindow(r, w) ==
    IF newWindow(r.last) THEN [r EXCEPT !.pc = "check", !.window = w, !.timeStamp = time]
    ELSE [r EXCEPT !.pc = "add"]

fills(t, w) == at[t].pc = "fill" /\ at[t].window = w

\* The time of the last reset is read.
check(t) ==
    /\ at[t].pc = "check"
    /\ at' = [at EXCEPT ![t] =
                IF resetAt[@.window] # @.timeStamp THEN [@ EXCEPT !.pc = "store"]
                ELSE [@ EXCEPT !.pc = "add", !.last = at[t].timeStamp, !.timeStamp = 0]]
    /\ UNCHANGED <<time, hashTable, resetAt, counted, raced>>

\* atomic_store of the time of the reset, which another thread may have stored
\* since it was compared.
store(t) ==
    LET w == at[t].window
        newer == at[t].timeStamp > resetAt[w]
    IN  /\ at[t].pc = "store"
        /\ resetAt' = [resetAt EXCEPT ![w] = at[t].timeStamp]
        /\ counted' = IF newer THEN [counted EXCEPT ![w] = Zero] ELSE counted
        /\ raced' = IF newer THEN raced \ {w} ELSE raced \cup {w}
        /\ at' = [at EXCEPT ![t].pc = "fill", ![t].filled = 0]
        /\ UNCHANGED <<time, hashTable>>

\* Mutant: the last bucket is taken for the time stamp.
lastFilled(bucket) == bucket >= CampaingCnt - 2
isLast(bucket) == bucket = CampaingCnt - 1

\* std::fill, one bucket at a time.
fill(t) ==
    LET b == at[t].filled IN
    /\ at[t].pc = "fill"
    /\ hashTable' = [hashTable EXCEPT ![at[t].window][b] = 0]
    /\ at' = [at EXCEPT ![t] = IF isLast(b)
                                 THEN [@ EXCEPT !.pc = "add", !.filled = 0,
                                                !.last = at[t].timeStamp, !.timeStamp = 0]
                                 ELSE [@ EXCEPT !.filled = b + 1]]
    /\ UNCHANGED <<time, resetAt, counted, raced>>

Reset(t) == check(t) \/ store(t) \/ fill(t)

\* atomic_fetch_add of one bucket.
add(t, campaign, next) ==
    LET w == at[t].window
        b == bucketPos(campaign)
    IN  /\ at[t].pc = "add"
        /\ hashTable' = [hashTable EXCEPT ![w][b] = @ + 1]
        /\ counted' = [counted EXCEPT ![w][b] = @ + 1]
        /\ raced' = IF \E u \in Threads \ {t} : fills(u, w) THEN raced \cup {w} ELSE raced
        /\ at' = [at EXCEPT ![t].pc = next]
        /\ UNCHANGED <<time, resetAt>>

\* The atomic counters lose nothing by themselves: a table holds every view that any
\* thread has counted in it since the first reset with its newest time stamp, and
\* nothing from before, although threads meet the new window at different times and
\* go on counting in the table.  Tables in raced are excepted: there views are lost,
\* as the resets are not synchronised (the code's TODO).
TablesExact ==
    \A w \in 0 .. 1 :
      w \notin raced /\ (\A t \in Threads : ~fills(t, w)) => hashTable[w] = counted[w]
==============================================================================
