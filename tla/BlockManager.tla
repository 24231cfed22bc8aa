---------------------------- MODULE BlockManager ----------------------------
(***************************************************************************)
(* The files of an input log: CircularFileList and the operations of       *)
(* checkpoint/BlockManager.cpp that pick a file for an offset and give     *)
(* files back.  A file is named by the number the code gives it, offsets   *)
(* are counted in batches, Capacity of them to a file.                     *)
(***************************************************************************)
EXTENDS Integers

CONSTANTS
    ListSize,        \* m_listSize
    Capacity         \* batches in the circular buffer, and in a file

NoFile == -1

\* m_buffer (m_filePtr and m_end of each entry), m_readIdx, m_writeIdx,
\* m_elements and m_counter.
CircularFileList ==
    [ptr |-> [i \in 0 .. ListSize - 1 |-> NoFile], end |-> [i \in 0 .. ListSize - 1 |-> -1],
     readIdx |-> 0, writeIdx |-> ListSize - 1, elements |-> 0, counter |-> 0]

after(i) == (i + 1) % ListSize
full(files) == files.elements = ListSize
hasWrapped(files) == files.counter >= ListSize

push_back(files, file) ==
    LET w == after(files.writeIdx) IN
    [files EXCEPT !.writeIdx = w, !.ptr[w] = file, !.end[w] = (file + 1) * Capacity,
                  !.elements = @ + 1, !.counter = @ + 1]

\* After the list has wrapped its files are used again: the one returned is at
\* m_writeIdx before it is advanced.
dummyFile(files) == files.ptr[files.writeIdx]
push_back_dummy(files) ==
    [files EXCEPT !.writeIdx = after(@), !.elements = @ + 1]

front(files) == files.ptr[files.readIdx]
secondFront(files) == files.ptr[after(files.readIdx)]

\* getFilePtr, first part: what its tests say of the offset.
inFront(files, index) == files.elements > 0 /\ index < files.end[files.readIdx]

\* Mutant: the second file is looked for although there is only one.
choiceOfOne(files, index) ==
    IF inFront(files, index) THEN "front"
    ELSE IF files.elements > 0 THEN "second" ELSE "new"

choice(files, index) ==
    IF inFront(files, index) THEN "front"
    ELSE IF files.elements > 1 THEN "second" ELSE "new"

\* getFilePtr, second part: the file, and the list it leaves.
newFile(files, index) ==
    IF hasWrapped(files) THEN dummyFile(files) ELSE index \div Capacity
withNewFile(files, index) ==
    IF hasWrapped(files) THEN push_back_dummy(files)
    ELSE push_back(files, index \div Capacity)

\* freePersistent: a file that ends at the freed offset is given back.
freesFront(files, index) == files.elements > 0 /\ index >= files.end[files.readIdx]
resetFront(files) == [files EXCEPT !.end[files.readIdx] = @ + Capacity]
pop_front(files) == [files EXCEPT !.elements = @ - 1, !.readIdx = after(@)]

\* loadFiles: the files found at a restart, in the order of their names.
loadFiles(n) ==
    [ptr |-> [i \in 0 .. ListSize - 1 |-> IF i < n THEN i ELSE NoFile],
     end |-> [i \in 0 .. ListSize - 1 |-> IF i < n THEN (i + 1) * Capacity ELSE -1],
     readIdx |-> 0, writeIdx |-> (n - 1) % ListSize, elements |-> n, counter |-> n]
=============================================================================
