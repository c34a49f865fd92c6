----------------------------- MODULE AccessLog -----------------------------
(***************************************************************************)
(* nucleon/main.py: the way of an access log line from the GreenWriter of  *)
(* a worker, through the pipe of that worker and a logger greenlet of the  *)
(* control process, into the access file that serve() opened.              *)
(*                                                                         *)
(* A line is two halves, of which the second ends it, so that a read() may *)
(* cut it.  access_file is a Python 2 file opened for appending: write()   *)
(* fills a buffer, which goes to the file a block at a time, and fork()    *)
(* gives the new worker a copy of what is in the buffer; a worker that     *)
(* exits, like the control process that closes the file, writes it out.    *)
(* When workers die and are replaced, and what a second signal does, is    *)
(* the business of module Daemon.                                          *)
(***************************************************************************)
EXTENDS Integers, Sequences, FiniteSets, SequencesExt

CONSTANTS
    Workers,    \* worker processes; none is used twice
    First,      \* those that start() forks; so many of them run at once
    MaxLines,   \* bound on the lines that each worker logs
    Block       \* the size of the file's buffer, in halves of lines

ASSUME AccessLogAssumption ==
    /\ IsFiniteSet(Workers)
    /\ First \subseteq Workers
    /\ MaxLines \in Nat
    /\ Block \in Nat \ {0}

VARIABLES
    life,         \* "unborn", "running", "ending" (after SIGTERM), "deaf" (it
                  \* lost its SIGTERM) or "gone"
    logged,       \* how many lines each worker has written
    pipe,         \* what is in each worker's pipe
    logger,       \* the logger greenlet of each worker
    buf,          \* its local variable buf
    handed,       \* what the loggers have passed to access_file.write()
    flushed,      \* how many halves of that have left the buffer
    copy,         \* the buffer each worker inherited
    file,         \* the access log
    keeprunning,  \* FALSE once stop() has been called
    aborted,      \* stop() has raised before it joined the loggers
    closed        \* stop() has closed access_file

vars == <<life, logged, pipe, logger, buf, handed, flushed, copy, file,
          keeprunning, aborted, closed>>

Running  == {w \in Workers : life[w] = "running"}
Alive    == {w \in Workers : life[w] \in {"running", "ending", "deaf"}}
Line(w, n) == <<<<w, n, "head">>, <<w, n, "tail">>>>
IsTail(half) == half[3] = "tail"

\* What is in the buffer of access_file.
Buffer == SubSeq(handed, flushed + 1, Len(handed))

\* start() has forked the first workers, before anything was logged.
Init ==
    /\ life = [w \in Workers |-> IF w \in First THEN "running" ELSE "unborn"]
    /\ logger = [w \in Workers |-> IF w \in First THEN "reading" ELSE "none"]
    /\ logged = [w \in Workers |-> 0]
    /\ pipe = [w \in Workers |-> <<>>]
    /\ buf = [w \in Workers |-> <<>>]
    /\ handed = <<>>
    /\ flushed = 0
    /\ copy = [w \in Workers |-> <<>>]
    /\ file = <<>>
    /\ keeprunning = TRUE
    /\ aborted = FALSE
    /\ closed = FALSE

-----------------------------------------------------------------------------
\* GreenWriter.write(): the pipe is blocking, so os.write() takes all of it.
Log(w) ==
    /\ w \in Alive
    /\ logged[w] < MaxLines
    /\ logged' = [logged EXCEPT ![w] = @ + 1]
    /\ pipe' = [pipe EXCEPT ![w] = @ \o Line(w, logged[w] + 1)]
    /\ UNCHANGED <<life, logger, buf, handed, flushed, copy, file, keeprunning, aborted, closed>>

\* access_file.write(lines): every full block of the buffer goes to the file.
WriteFile(lines) ==
    /\ handed' = handed \o lines
    /\ flushed' = Block * (Len(handed') \div Block)
    /\ file' = file \o SubSeq(handed', flushed + 1, flushed')

\* Where text.rsplit('\n', 1) splits text.
LastNewline(text) == Max({0} \cup {i \in DOMAIN text : IsTail(text[i])})

\* Mutant of Read: each chunk is written as it is.
ReadUnbuffered(w) ==
    /\ logger[w] = "reading"
    /\ \E n \in 1 .. Len(pipe[w]) :
          /\ pipe' = [pipe EXCEPT ![w] = SubSeq(@, n + 1, Len(@))]
          /\ WriteFile(SubSeq(pipe[w], 1, n))
    /\ UNCHANGED <<life, logged, logger, buf, copy, keeprunning, aborted, closed>>

\* logger() reads a chunk, which ends anywhere, and passes on whole lines.
Read(w) ==
    /\ logger[w] = "reading"
    /\ \E n \in 1 .. Len(pipe[w]) :
          LET text == buf[w] \o SubSeq(pipe[w], 1, n)
              end  == LastNewline(text)
          IN  /\ pipe' = [pipe EXCEPT ![w] = SubSeq(@, n + 1, Len(@))]
              /\ buf' = [buf EXCEPT ![w] = SubSeq(text, end + 1, Len(text))]
              /\ WriteFile(SubSeq(text, 1, end))
    /\ UNCHANGED <<life, logged, logger, copy, keeprunning, aborted, closed>>

\* Mutant of EndOfFile: the logger stops when its worker is told to.
EndOfService(w) ==
    /\ logger[w] = "reading"
    /\ life[w] \in {"ending", "gone"}
    /\ logger' = [logger EXCEPT ![w] = "done"]
    /\ UNCHANGED <<life, logged, pipe, buf, handed, flushed, copy, file, keeprunning, aborted, closed>>

\* read() returns nothing, as nobody can write to the pipe any more.  With part
\* of a line in buf, logger() goes round again without changing anything.
EndOfFile(w) ==
    /\ logger[w] = "reading"
    /\ life[w] = "gone"
    /\ pipe[w] = <<>>
    /\ buf[w] = <<>>
    /\ logger' = [logger EXCEPT ![w] = "done"]
    /\ UNCHANGED <<life, logged, pipe, buf, handed, flushed, copy, file, keeprunning, aborted, closed>>

-----------------------------------------------------------------------------
\* A worker ends in the orderly way, and so closes its copy of access_file.
Ends(w) ==
    /\ w \in Alive
    /\ life' = [life EXCEPT ![w] = "gone"]
    /\ file' = file \o copy[w]
    /\ UNCHANGED <<logged, pipe, logger, buf, handed, flushed, copy, keeprunning, aborted, closed>>

\* A worker is killed, perhaps in the middle of a line longer than PIPE_BUF.
Killed(w) ==
    /\ w \in Alive
    /\ life' = [life EXCEPT ![w] = "gone"]
    /\ \/ UNCHANGED pipe
       \/ pipe' = [pipe EXCEPT ![w] = Append(@, <<w, logged[w] + 1, "head">>)]
    /\ UNCHANGED <<logged, logger, buf, handed, flushed, copy, file, keeprunning, aborted, closed>>

\* spawn_worker() replaces a worker that has died.
Respawn(w) ==
    /\ keeprunning
    /\ life[w] = "unborn"
    /\ Cardinality(Running) < Cardinality(First)
    /\ life' = [life EXCEPT ![w] = "running"]
    /\ logger' = [logger EXCEPT ![w] = "reading"]
    /\ copy' = [copy EXCEPT ![w] = Buffer]
    /\ UNCHANGED <<logged, pipe, buf, handed, flushed, file, keeprunning, aborted, closed>>

\* Mutant of Stop: only one worker is signalled.
StopOne ==
    /\ keeprunning
    /\ keeprunning' = FALSE
    /\ \E w \in Workers :
          life' = [life EXCEPT ![w] = IF @ = "running" THEN "ending" ELSE @]
    /\ UNCHANGED <<logged, pipe, logger, buf, handed, flushed, copy, file, aborted, closed>>

\* os.kill(w, SIGTERM) for each w of ws.  In a worker that is still starting, and
\* so has logged nothing, the handler inherited from the control process may
\* consume the signal.
Terminate(ws) ==
    \E lost \in SUBSET {w \in ws : logged[w] = 0} :
       life' = [w \in Workers |-> IF w \in lost THEN "deaf"
                                  ELSE IF w \in ws THEN "ending" ELSE life[w]]

\* stop(): no more respawning, and SIGTERM to the workers one by one.  If one is
\* no longer there, but still in self.workers, os.kill() raises OSError and the
\* message about it TypeError: the rest are not signalled and stop() ends there.
Stop ==
    /\ keeprunning
    /\ keeprunning' = FALSE
    /\ \/ Terminate(Running) /\ UNCHANGED aborted
       \/ /\ \E w \in Workers : life[w] = "gone"
          /\ \E ws \in SUBSET Running : Terminate(ws)
          /\ aborted' = TRUE
    /\ UNCHANGED <<logged, pipe, logger, buf, handed, flushed, copy, file, closed>>

\* Mutant of Close: access_file is closed without waiting for all the loggers.
CloseEarly ==
    /\ ~ keeprunning /\ ~ aborted
    /\ ~ closed
    /\ \E w \in Workers : logger[w] = "done"
    /\ file' = file \o Buffer
    /\ flushed' = Len(handed)
    /\ closed' = TRUE
    /\ UNCHANGED <<life, logged, pipe, logger, buf, handed, copy, keeprunning, aborted>>

\* stop() has joined the loggers and closes access_file.
Close ==
    /\ ~ keeprunning /\ ~ aborted
    /\ ~ closed
    /\ \A w \in Workers : logger[w] # "reading"
    /\ file' = file \o Buffer
    /\ flushed' = Len(handed)
    /\ closed' = TRUE
    /\ UNCHANGED <<life, logged, pipe, logger, buf, handed, copy, keeprunning, aborted>>

Next ==
    \/ \E w \in Workers :
          \/ Log(w) \/ Read(w) \/ EndOfFile(w)
          \/ Ends(w) \/ Killed(w) \/ Respawn(w)
    \/ Stop \/ Close

Spec == Init /\ [][Next]_vars

\* The hub of the control process runs the loggers, and a worker that has
\* received SIGTERM ends.
Fairness ==
    /\ \A w \in Workers : /\ WF_vars(Read(w)) /\ WF_vars(EndOfFile(w))
                          /\ WF_vars(life[w] = "ending" /\ Ends(w))
    /\ WF_vars(Close)

FairSpec == Spec /\ Fairness

-----------------------------------------------------------------------------
HalfLines == Workers \X (1 .. MaxLines + 1) \X {"head", "tail"}

\* The values the variables take; buf never holds a newline, nor the pipe of a
\* worker whose logger is done anything at all.
TypeOK ==
    /\ life \in [Workers -> {"unborn", "running", "ending", "deaf", "gone"}]
    /\ logged \in [Workers -> 0 .. MaxLines]
    /\ pipe \in [Workers -> Seq(HalfLines)]
    /\ logger \in [Workers -> {"none", "reading", "done"}]
    /\ buf \in [Workers -> Seq({h \in HalfLines : ~ IsTail(h)})]
    /\ handed \in Seq(HalfLines)
    /\ flushed \in 0 .. Len(handed)
    /\ copy \in [Workers -> Seq(HalfLines)]
    /\ file \in Seq(HalfLines)
    /\ keeprunning \in BOOLEAN
    /\ aborted \in BOOLEAN
    /\ closed \in BOOLEAN
    /\ \A w \in Workers : logger[w] = "done" => pipe[w] = <<>> /\ buf[w] = <<>>

\* However read() cuts the pipes' contents into chunks, and however the loggers
\* take turns and workers die, the control process writes whole lines, each
\* worker's in its order, none twice.
L == INSTANCE AtomicLog WITH log <- handed
LogSpec == L!Spec

\* When stop() closes the access file, every line that any worker logged has
\* been passed to it, those included that were logged while shutting down and
\* those of workers that were killed.
NothingLost ==
    closed => /\ \A w \in Workers : L!Count(w) = logged[w]
              /\ Buffer = <<>>

\* A logger that never ends: its worker was killed in the middle of a line.
Torn(w) == life[w] = "gone" /\ pipe[w] = <<>> /\ buf[w] # <<>>

\* A signal leads to the end of stop(), whatever is still in the pipes.  Three
\* things in the code prevent it, and nothing else: stop() raises before it has
\* signalled everybody, a worker was killed in the middle of a line, or one that
\* lost its SIGTERM goes on for ever.
StopCloses ==
    ~ keeprunning ~>
        \/ closed \/ aborted
        \/ \E w \in Workers : Torn(w)
        \/ [](\E w \in Workers : life[w] = "deaf")

\* tests/logging_tests/tests.py, "Check that access log was written correctly":
\* once the server has stopped, the access log consists of whole lines.
OnlyWholeLines ==
    closed => \A i \in DOMAIN file :
                 IF i % 2 = 1 THEN i < Len(file) /\ file[i + 1] = <<file[i][1], file[i][2], "tail">>
                              ELSE IsTail(file[i])
=============================================================================
