---------------------------- MODULE FlinkApproach ----------------------------
(***************************************************************************)
(* flink_approach.cpp: producers partition their views by campaign into    *)
(* one buffer per consumer and push a buffer that is full to the queue of  *)
(* the consumer, which counts its tuples in the shared tables.  A Buffer   *)
(* is pushed by its implicit copy: the queue holds the producer's own      *)
(* array, which the producer goes on to fill.                              *)
(***************************************************************************)
EXTENDS CampaignWindows, Sequences, FiniteSets

CONSTANTS
    Producers,
    ProcessCnt,          \* records of a producer
    BufferSize,          \* BUFFER_SIZE
    NoView,
    Samples              \* the arrangements of records that are tried

VARIABLES
    recs,                \* the records of the producers, shuffled
    position,            \* per producer: the next record
    content, pos,        \* tempBuffers of the producers, one per consumer
    queue,               \* per consumer: the producers whose array was pushed
    exitProgram,
    buff, next,          \* per consumer: the array popped, its next tuple
    consumed,
    unsent,              \* history: per producer and consumer, views since the last push
    pushedTuples,        \* history: per consumer, the views that have been pushed
    overwritten,         \* history: arrays written to while queued or read
    late                 \* history: consumers pushed to between their two tests

vars == <<windowVars, recs, position, content, pos, queue, exitProgram, buff, next, consumed,
          unsent, pushedTuples, overwritten, late>>
queueVars == <<content, pos, queue, unsent, pushedTuples, overwritten, late>>

generated ==
    {r \in Samples : DOMAIN r = 1 .. ProcessCnt /\
       Cardinality({i \in 1 .. ProcessCnt : r[i] # NoView}) = (ProcessCnt + 2) \div 3}

\* campaign_id % consumeCnt; the consumers are 0, 1, ...
consumerOf(campaign) == campaign % Cardinality(Threads)

Init ==
    /\ WindowInit
    /\ recs \in [Producers -> generated]
    /\ position = [p \in Producers |-> 1]
    /\ content = [p \in Producers |-> [c \in Threads |-> [k \in 0 .. BufferSize - 1 |-> 0]]]
    /\ pos = [p \in Producers |-> [c \in Threads |-> 0]]
    /\ queue = [c \in Threads |-> <<>>] /\ exitProgram = 0
    /\ buff = [c \in Threads |-> 0] /\ next = [c \in Threads |-> 0]
    /\ unsent = [p \in Producers |-> [c \in Threads |-> <<>>]]
    /\ consumed = [c \in Threads |-> 0] /\ pushedTuples = [c \in Threads |-> <<>>]
    /\ overwritten = {} /\ late = {}

consumerVars == <<time, hashTable, resetAt, at, counted, raced, buff, next, consumed>>

\* Consumer c has yet to read the array of producer p, or is reading it.
inUse(p, c) ==
    \/ \E k \in DOMAIN queue[c] : queue[c][k] = p
    \/ buff[c] = p

\* A record that is no view is passed over; a view is added to the buffer of its
\* consumer.
addToBuffer(p) ==
    LET campaign == recs[p][position[p]]
        c == consumerOf(campaign)
    IN  /\ position[p] <= ProcessCnt /\ (\A d \in Threads : pos[p][d] < BufferSize)
        /\ position' = [position EXCEPT ![p] = @ + 1]
        /\ \/ /\ campaign = NoView
              /\ UNCHANGED <<content, pos, unsent, overwritten>>
           \/ /\ campaign # NoView
              /\ content' = [content EXCEPT ![p][c][pos[p][c]] = campaign]
              /\ pos' = [pos EXCEPT ![p][c] = @ + 1]
              /\ unsent' = [unsent EXCEPT ![p][c] = Append(@, campaign)]
              /\ overwritten' = IF inUse(p, c) THEN overwritten \cup {c} ELSE overwritten
        /\ UNCHANGED <<consumerVars, recs, queue, exitProgram, pushedTuples, late>>

emptied(positions, c) == [positions EXCEPT ![c] = 0]

\* The buffer is full: it is pushed, and filled from its start again.
push(p, c) ==
    /\ pos[p][c] = BufferSize
    /\ queue' = [queue EXCEPT ![c] = Append(@, p)]
    /\ pos' = [pos EXCEPT ![p] = emptied(@, c)]
    /\ pushedTuples' = [pushedTuples EXCEPT ![c] = @ \o unsent[p][c]]
    /\ unsent' = [unsent EXCEPT ![p][c] = <<>>]
    /\ late' = IF at[c].pc \in {"exit", "done"} THEN late \cup {c} ELSE late
    /\ UNCHANGED <<consumerVars, recs, position, content, exitProgram, overwritten>>

\* The producer has no record left; what its buffers hold is not sent.
exit(p) ==
    /\ position[p] = ProcessCnt + 1 /\ \A c \in Threads : pos[p][c] < BufferSize
    /\ position' = [position EXCEPT ![p] = @ + 1]
    /\ exitProgram' = exitProgram + 1
    /\ UNCHANGED <<consumerVars, recs, queueVars>>

produce_window_mem(p) == addToBuffer(p) \/ (\E c \in Threads : push(p, c)) \/ exit(p)

\* A buffer is popped and the clock read; every buffer is counted in window 0 but
\* the one that meets a new window.
pop(c) ==
    /\ at[c].pc = "start" /\ queue[c] # <<>>
    /\ buff' = [buff EXCEPT ![c] = Head(queue[c])] /\ next' = [next EXCEPT ![c] = 0]
    /\ queue' = [queue EXCEPT ![c] = Tail(@)]
    /\ at' = [at EXCEPT ![c] = inWindow([@ EXCEPT !.window = 0], 1)]
    /\ UNCHANGED <<time, hashTable, resetAt, counted, raced, recs, position, content, pos,
                   exitProgram, consumed, unsent, pushedTuples, overwritten, late>>

count(c) ==
    LET last == next[c] = BufferSize - 1 IN
    /\ at[c].pc = "add"
    /\ add(c, content[buff[c]][c][next[c]], IF last THEN "start" ELSE "add")
    /\ next' = [next EXCEPT ![c] = IF last THEN 0 ELSE @ + 1]
    /\ buff' = IF last THEN [buff EXCEPT ![c] = 0] ELSE buff
    /\ consumed' = [consumed EXCEPT ![c] = @ + 1]
    /\ UNCHANGED <<recs, position, queueVars, exitProgram>>

\* The queue is empty; then the producers are asked for.
sawEmpty(c) ==
    /\ at[c].pc = "start" /\ queue[c] = <<>>
    /\ at' = [at EXCEPT ![c].pc = "exit"]
    /\ UNCHANGED <<time, hashTable, resetAt, counted, raced, recs, position, queueVars,
                   exitProgram, buff, next, consumed>>
testExit(c) ==
    /\ at[c].pc = "exit"
    /\ at' = [at EXCEPT ![c].pc = IF exitProgram = Cardinality(Producers) THEN "done" ELSE "start"]
    /\ UNCHANGED <<time, hashTable, resetAt, counted, raced, recs, position, queueVars,
                   exitProgram, buff, next, consumed>>

cosume_window_mem(c) ==
    \/ pop(c) \/ count(c) \/ sawEmpty(c) \/ testExit(c)
    \/ Reset(c) /\ UNCHANGED <<recs, position, queueVars, exitProgram, buff, next, consumed>>

Next ==
    \/ tick /\ UNCHANGED <<recs, position, queueVars, exitProgram, buff, next, consumed>>
    \/ \E p \in Producers : produce_window_mem(p)
    \/ \E c \in Threads : cosume_window_mem(c)

Spec == Init /\ [][Next]_vars
----------------------------------------------------------------------------

\* Every tuple that was pushed is counted once, or is still to be counted: it is in
\* the queue or in the buffer at hand, however pushes and pops interleave.  A
\* consumer that stops leaves nothing in its queue, unless a producer has pushed
\* after its test for an empty queue (late): such a buffer is never counted.
AllConsumed ==
    \A c \in Threads :
      /\ consumed[c] + (IF buff[c] = 0 THEN 0 ELSE BufferSize - next[c])
           + BufferSize * Len(queue[c]) = Len(pushedTuples[c])
      /\ at[c].pc = "done" /\ c \notin late => queue[c] = <<>>

\* While no reset has begun, the two tables together hold the tuples that were
\* pushed and are not queued or being read, each in the bucket of its campaign:
\* unless a producer has gone on filling an array before it was read (overwritten).
CountsArePushed ==
    overwritten = {} /\ (\A w \in 0 .. 1 : resetAt[w] = 0) /\ (\A c \in Threads : buff[c] = 0) =>
      \A b \in Buckets :
        hashTable[0][b] + hashTable[1][b] =
          LET done(c) == SubSeq(pushedTuples[c], 1, consumed[c]) IN
          Cardinality(UNION {{<<c, i>> : i \in {j \in 1 .. consumed[c] :
                                                  bucketPos(done(c)[j]) = b}} : c \in Threads})

\* What is sent is counted once and in its bucket, with the exceptions above.
SentIsCounted == AllConsumed /\ CountsArePushed /\ TablesExact
==============================================================================
