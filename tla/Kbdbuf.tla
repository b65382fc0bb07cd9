------------------------------- MODULE Kbdbuf -------------------------------
(***************************************************************************)
(* The keyboard buffer (src/vice/src/kbdbuf.c): commands wait in a queue of *)
(* the emulator and are put into the buffer of the emulated KERNAL whenever *)
(* that is empty.  The RETURN of a command that is to be run may be held    *)
(* back for more than a frame, by an alarm.                                 *)
(*                                                                         *)
(* A command is a sequence of keys.  The clock counts frames: the alarm is  *)
(* due after the next frame, and before the one after it.                   *)
(***************************************************************************)
EXTENDS Integers, Sequences

CONSTANTS
    QueueSize,     \* QUEUE_SIZE
    BufferSize,    \* buffer_size
    KernalInit     \* kernal_init_cycles

ASSUME KbdbufAssumption == {QueueSize, BufferSize, KernalInit} \subseteq Nat \ {0}

Keys == {"load", "tape", "run", "return"}
Load == <<"load", "return">>
LoadTape == <<"tape", "return">>
Run == <<"run", "return">>

Unset == -1
\* queue with head_idx and num_pending, the buffer of the KERNAL,
\* use_kbdbuf_flush_alarm and kbdbuf_flush_alarm
Kbdbufs(clocks) == [queue : Seq(Keys), buffer : Seq(Keys), delays : BOOLEAN,
                    alarm : clocks \cup {Unset}]
EmptyKbdbuf == [queue |-> <<>>, buffer |-> <<>>, delays |-> FALSE, alarm |-> Unset]

\* Mutant: it is not waited until the buffer of the KERNAL is empty.
FlushOver(kb, clk) ==
    LET n == IF Len(kb.queue) > BufferSize THEN BufferSize ELSE Len(kb.queue)
    IN  IF kb.queue = <<>> \/ clk < KernalInit \/ kb.alarm # Unset THEN kb
        ELSE [kb EXCEPT !.buffer = @ \o SubSeq(kb.queue, 1, n),
                        !.queue = SubSeq(kb.queue, n + 1, Len(kb.queue))]

(* kbdbuf_flush                                                             *)
Flush(kb, clk) ==
    LET n == IF Len(kb.queue) > BufferSize THEN BufferSize ELSE Len(kb.queue)
        free == {k \in 0 .. n : kb.delays => \A i \in 1 .. k : kb.queue[i] # "return"}
        k == CHOOSE k \in free : \A j \in free : j <= k
    IN  IF kb.queue = <<>> \/ kb.buffer # <<>> \/ clk < KernalInit \/ kb.alarm # Unset
        THEN kb
        ELSE [kb EXCEPT !.buffer = SubSeq(kb.queue, 1, k),
                        !.queue = SubSeq(kb.queue, k + 1, Len(kb.queue)),
                        !.alarm = IF k < n THEN clk + 1 ELSE Unset]

(* kbdbuf_feed and kbdbuf_feed_runcmd                                       *)
Feed(kb, command, delays, clk) ==
    LET fed == [kb EXCEPT !.delays = delays]
    IN  IF Len(kb.queue) + Len(command) > QueueSize THEN fed
        ELSE Flush([fed EXCEPT !.queue = @ \o command], clk)

(* kbdbuf_flush_alarm_triggered                                             *)
PressReturn(kb) ==
    [kb EXCEPT !.alarm = Unset, !.buffer = Append(@, "return"), !.queue = Tail(@)]
=============================================================================
