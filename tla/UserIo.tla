-------------------------------- MODULE UserIo --------------------------------
(***************************************************************************)
(* beskar-lib's streams: File with its own position over the read and write   *)
(* system calls, the default methods of Read and Write that loop over short    *)
(* counts, and BufReader and BufWriter on top of them.  A program reads one    *)
(* file through a BufReader or writes one through a BufWriter: the two share   *)
(* nothing, and a behaviour follows one of them.  Byte n of a file, and the    *)
(* n-th byte written, are represented by n.                                    *)
(***************************************************************************)
EXTENDS Integers, Sequences, FiniteSets

CONSTANTS SourceLen,        \* bytes in the file that is read
          ReaderCapacity, WriterCapacity,
          Requests,         \* sizes of the slices the program reads into and writes
          MaxAccepted       \* bound: bytes the program writes

VARIABLES u_stream,             \* "reader" or "writer"
          ur_pos, ur_buf,       \* the source's File position; what BufReader holds, from pos to cap
          ur_got,               \* every byte the program was given
          uw_pos, uw_file,      \* the sink's File position and content
          uw_buf,               \* BufWriter: buf[..pos]
          uw_sent,              \* bytes accepted from the program
          uw_call,              \* a write in progress: [todo, then, extra]
          uw_failed             \* an error was returned to the program, which gives up

readerVars == <<u_stream, ur_pos, ur_buf, ur_got>>
writerVars == <<uw_pos, uw_file, uw_buf, uw_sent, uw_call, uw_failed>>
userIoVars == <<readerVars, writerVars>>

NoWrite == [todo |-> <<>>, then |-> "none", extra |-> <<>>]

UserIoInit ==
    /\ u_stream \in {"reader", "writer"}
    /\ ur_pos = 0 /\ ur_buf = <<>> /\ ur_got = <<>>
    /\ uw_pos = 0 /\ uw_file = <<>> /\ uw_buf = <<>> /\ uw_sent = 0
    /\ uw_call = NoWrite /\ uw_failed = FALSE

Least2(a, b) == IF a < b THEN a ELSE b
Take(s, n) == SubSeq(s, 1, n)
Rest(s, n) == SubSeq(s, n + 1, Len(s))

\* sc_read(): the kernel copies some of what lies between the offset and the end, or
\* fails with -1; nothing is left at the end.
ScRead(offset, size) ==
    LET most == IF offset >= SourceLen THEN 0 ELSE Least2(size, SourceLen - offset)
    IN  {-1} \cup (IF most = 0 THEN {0} ELSE 1..most)

\* <File as Read>::read(): the position moves by what was read.
FileRead(size, n) == n \in ScRead(ur_pos, size) /\ ur_pos' = IF n < 0 THEN ur_pos ELSE ur_pos + n

\* What the kernel copied.
Bytes(offset, n) == [k \in 1..n |-> offset + k]

\* Mutant: one byte less than was read is made available.
BufReaderFillShort(n) == ur_buf' = Bytes(ur_pos, IF n > 0 THEN n - 1 ELSE 0)

BufReaderFill(n) == ur_buf' = Bytes(ur_pos, n)

\* <BufReader as Read>::read(): an empty buffer is filled, then it gives what it has.
BufReaderRead(size) ==
    /\ IF Len(ur_buf) > 0
       THEN LET amt == Least2(size, Len(ur_buf))
            IN  /\ ur_got' = ur_got \o Take(ur_buf, amt)
                /\ ur_buf' = Rest(ur_buf, amt) /\ UNCHANGED ur_pos
       ELSE \E n \in ScRead(ur_pos, ReaderCapacity) :
               /\ FileRead(ReaderCapacity, n)
               /\ IF n < 0 THEN UNCHANGED <<ur_buf, ur_got>>
                  ELSE LET amt == Least2(size, n)
                       IN  /\ ur_got' = ur_got \o Take(Bytes(ur_pos, n), amt)
                           /\ ur_buf' = Rest(Bytes(ur_pos, n), amt)
    /\ UNCHANGED <<u_stream, writerVars>>

\* <BufReader as BufRead>::fill_buf() and consume(): no more than was there is consumed.
FillBuf ==
    /\ ur_buf = <<>>
    /\ \E n \in ScRead(ur_pos, ReaderCapacity) :
          FileRead(ReaderCapacity, n) /\ (IF n < 0 THEN UNCHANGED ur_buf ELSE BufReaderFill(n))
    /\ UNCHANGED <<u_stream, ur_got, writerVars>>

Consume(amt) ==
    /\ ur_buf # <<>>
    /\ LET n == Least2(amt, Len(ur_buf))
       IN  ur_got' = ur_got \o Take(ur_buf, n) /\ ur_buf' = Rest(ur_buf, n)
    /\ UNCHANGED <<u_stream, ur_pos, writerVars>>

-----------------------------------------------------------------------------
\* <BufWriter as Write>::write(): what does not fit makes the buffer be flushed first;
\* what can never fit goes to the file directly, in one write.
BufWriterWrite(size) ==
    LET data == [k \in 1..size |-> uw_sent + k] IN
    /\ uw_call = NoWrite /\ ~uw_failed /\ uw_sent + size <= MaxAccepted
    /\ IF Len(uw_buf) + size > WriterCapacity
       THEN /\ uw_call' = [todo |-> uw_buf, extra |-> data,
                           then |-> IF size >= WriterCapacity THEN "direct" ELSE "buffer"]
            /\ UNCHANGED <<uw_buf, uw_sent>>
       ELSE uw_buf' = uw_buf \o data /\ uw_sent' = uw_sent + size /\ UNCHANGED uw_call
    /\ UNCHANGED <<uw_pos, uw_file, uw_failed, readerVars>>

BufWriterFlush ==
    /\ uw_call = NoWrite /\ ~uw_failed /\ uw_buf # <<>>
    /\ uw_call' = [todo |-> uw_buf, then |-> "flush", extra |-> <<>>]
    /\ UNCHANGED <<uw_pos, uw_file, uw_buf, uw_sent, uw_failed, readerVars>>

\* sc_write() at an offset: what it covers is replaced.
ScWrite(offset, data) ==
    [k \in 1..(IF offset + Len(data) > Len(uw_file) THEN offset + Len(data) ELSE Len(uw_file)) |->
        IF k > offset /\ k <= offset + Len(data) THEN data[k - offset] ELSE uw_file[k]]

\* <File as Write>::write(): some of the bytes, or an error.
FileWrite(data, n) ==
    /\ uw_file' = ScWrite(uw_pos, Take(data, n)) /\ uw_pos' = uw_pos + n

\* Mutant: the position is left alone.
WriteAllStuck(n) ==
    /\ uw_file' = ScWrite(uw_pos, Take(uw_call.todo, n)) /\ UNCHANGED uw_pos
    /\ uw_call' = [uw_call EXCEPT !.todo = Rest(@, n)]
    /\ UNCHANGED <<uw_buf, uw_sent, uw_failed, readerVars>>

\* write_all(): the rest after a short count.
WriteAllStep(n) ==
    /\ FileWrite(uw_call.todo, n)
    /\ uw_call' = [uw_call EXCEPT !.todo = Rest(@, n)]
    /\ UNCHANGED <<uw_buf, uw_sent, uw_failed, readerVars>>

WriteAll ==
    /\ uw_call # NoWrite /\ uw_call.todo # <<>>
    /\ \E n \in 1..Len(uw_call.todo) : WriteAllStep(n)

\* An error, or a count of 0, ends the call; the buffer keeps everything it held.
WriteAllFails ==
    /\ uw_call # NoWrite /\ uw_call.todo # <<>>
    /\ uw_call' = NoWrite /\ uw_failed' = TRUE
    /\ UNCHANGED <<uw_pos, uw_file, uw_buf, uw_sent, readerVars>>

\* The buffer is empty again, and what was to follow the flush follows.
Flushed ==
    /\ uw_call # NoWrite /\ uw_call.todo = <<>>
    /\ \/ /\ uw_call.then = "flush" /\ uw_buf' = <<>>
          /\ UNCHANGED <<uw_pos, uw_file, uw_sent, uw_failed>>
       \/ /\ uw_call.then = "buffer" /\ uw_buf' = uw_call.extra
          /\ uw_sent' = uw_sent + Len(uw_call.extra)
          /\ UNCHANGED <<uw_pos, uw_file, uw_failed>>
       \/ /\ uw_call.then = "direct" /\ uw_buf' = <<>>
          /\ \/ /\ \E n \in 0..Len(uw_call.extra) :
                     FileWrite(uw_call.extra, n) /\ uw_sent' = uw_sent + n
                /\ UNCHANGED uw_failed
             \/ uw_failed' = TRUE /\ UNCHANGED <<uw_pos, uw_file, uw_sent>>
    /\ uw_call' = NoWrite /\ UNCHANGED readerVars

UserIoNext ==
    \/ u_stream = "reader" /\ (FillBuf \/ \E size \in Requests : BufReaderRead(size) \/ Consume(size))
    \/ u_stream = "writer" /\ (\E size \in Requests : BufWriterWrite(size))
    \/ BufWriterFlush \/ WriteAll \/ WriteAllFails \/ Flushed

-----------------------------------------------------------------------------
\* A program's streams neither lose, repeat nor reorder bytes.  Whatever mixture of short
\* reads, errors, read() and consume() it goes through, what it was given is the start of
\* the file and the buffered reader holds exactly what lies between that and the file's
\* position; and unless a write has failed (BufWriter then still holds bytes that
\* write_all may have delivered), the file followed by what is still to be delivered is
\* everything the program was told was accepted.
StreamsKeepTheBytes ==
    /\ ur_got \o ur_buf = Bytes(0, ur_pos)
    /\ ur_pos <= SourceLen
    /\ ~uw_failed =>
          LET pending == IF uw_call = NoWrite THEN uw_buf ELSE uw_call.todo
          IN  uw_file \o pending = Bytes(0, uw_sent)
    /\ Len(uw_buf) <= WriterCapacity
=============================================================================
