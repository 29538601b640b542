-------------------------------- MODULE Uart --------------------------------
(***************************************************************************)
(* The receiving half of serial/uart.c and the user tasks of               *)
(* meta-id/task.c.  Characters arrive in the receive FIFO whatever the     *)
(* program does; the interrupt disables itself and posts an event to the   *)
(* queue of user tasks; the task empties the FIFO buffer by buffer into    *)
(* the callbacks and enables the interrupt again.  Callbacks of the SDK    *)
(* run between two tasks, and may poll the FIFO behind the task's back.    *)
(*                                                                         *)
(* The module that EXTENDS this one says what the callback does with a     *)
(* buffer and what the characters are.                                     *)
(***************************************************************************)
EXTENDS Integers, Sequences, FiniteSets, SequencesExt

CONSTANTS
    FifoSize,     \* characters the receive FIFO holds (128)
    BufSize,      \* characters uart_recvTask reads at a time (128)
    QueueLen,     \* _task_queueLen
    OthersMax     \* bound on the events of other tasks in the queue at once

ASSUME UartAssumption ==
    /\ FifoSize \in Nat \ {0} /\ BufSize \in Nat \ {0}
    /\ QueueLen \in Nat \ {0}
    /\ OthersMax \in 0 .. QueueLen - 1

VARIABLES
    fifo,     \* the receive FIFO
    intr,     \* whether the receive interrupt is enabled
    queue,    \* the queue of user tasks
    running   \* the user task under way, or "none"

uartVars == <<fifo, intr, queue, running>>

UartInit ==
    /\ fifo = <<>> /\ intr = TRUE
    /\ queue = <<>> /\ running = "none"

-----------------------------------------------------------------------------

\* A character that does not fit into the FIFO is lost.
Arrives(c) ==
    /\ fifo' = IF Len(fifo) < FifoSize THEN Append(fifo, c) ELSE fifo
    /\ UNCHANGED <<intr, queue, running>>

\* system_os_post fails when the queue is full, and nobody looks at that.
post_usr_task(task) == queue' = IF Len(queue) < QueueLen THEN Append(queue, task) ELSE queue

\* Mutant: an event is posted only if there is something left to read.
InterruptQuiet ==
    /\ intr /\ fifo # <<>>
    /\ intr' = FALSE
    /\ fifo' \in {fifo, <<>>}
    /\ IF fifo' = <<>> THEN UNCHANGED queue ELSE post_usr_task("uart")
    /\ UNCHANGED running

\* The FIFO is full enough, or nothing more has come for a while.  A framing
\* error clears it.
uart0_rx_intr_handler ==
    /\ intr /\ fifo # <<>>
    /\ intr' = FALSE
    /\ fifo' \in {fifo, <<>>}
    /\ post_usr_task("uart")
    /\ UNCHANGED running

\* Tasks run to completion, one at a time.
usr_event_handler ==
    /\ running = "none" /\ queue # <<>>
    /\ running' = Head(queue) /\ queue' = Tail(queue)
    /\ UNCHANGED <<fifo, intr>>

\* The task has read the FIFO while there was something in it.
RecvTaskEnds ==
    /\ running = "uart" /\ fifo = <<>>
    /\ running' = "none" /\ intr' = TRUE
    /\ UNCHANGED <<fifo, queue>>

\* The buffer uart_recvTask hands to the callbacks, and reading it.
Buffer == SubSeq(fifo, 1, IF Len(fifo) < BufSize THEN Len(fifo) ELSE BufSize)

RecvTaskReads ==
    /\ running = "uart" /\ fifo # <<>>
    /\ fifo' = SubSeq(fifo, Len(Buffer) + 1, Len(fifo))
    /\ UNCHANGED <<intr, queue, running>>

\* A callback of the SDK polls for n characters with the interrupt off.
uart0_rx_poll ==
    /\ running = "none"
    /\ \E n \in 0..Len(fifo) : fifo' = SubSeq(fifo, n + 1, Len(fifo))
    /\ intr' = TRUE
    /\ UNCHANGED <<queue, running>>

\* Where the events of other tasks are in the queue.
Others(q) == {i \in DOMAIN q : q[i] = "other"}

\* Another part of the program posts an event of its own task.
OtherPosts ==
    /\ running = "none"
    /\ Cardinality(Others(queue)) < OthersMax
    /\ post_usr_task("other")
    /\ UNCHANGED <<fifo, intr, running>>

OtherTask ==
    /\ running = "other" /\ running' = "none"
    /\ UNCHANGED <<fifo, intr, queue>>

-----------------------------------------------------------------------------

(* The port is never deaf: while the interrupt is off, the task that turns *)
(* it on again is under way or has its event in the queue, however often   *)
(* the FIFO is polled behind its back, as long as the other tasks leave it *)
(* one place in the queue.                                                 *)
NeverDeaf == intr \/ running = "uart" \/ Contains(queue, "uart")
=============================================================================
