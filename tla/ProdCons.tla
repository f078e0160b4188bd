------------------------------ MODULE ProdCons ------------------------------
(***************************************************************************)
(* lab9/main.c: a producer thread writes numbered messages into a buffer,  *)
(* a consumer thread prints it, for ever, under a mutex.  The producer may *)
(* write many messages between two looks of the consumer.                  *)
(***************************************************************************)
EXTENDS Integers

CONSTANT MaxMessages   \* bound: the messages written before the program is interrupted

ASSUME MessagesAssumption == MaxMessages \in Nat

VARIABLES
    pcPc,          \* [Threads -> where the thread is]
    holder,        \* who holds buffer_lock, or "nobody"
    message_count,
    data_buffer,   \* the number of the message in it; 0 is "Initial buffer state"
    printedLast    \* what the consumer printed last

pcVars == <<pcPc, holder, message_count, data_buffer, printedLast>>

Threads == {"main", "producer", "consumer"}
Torn    == -1   \* a buffer that snprintf is in

PcMoves(t, from, to) == pcPc[t] = from /\ pcPc' = [pcPc EXCEPT ![t] = to]

-----------------------------------------------------------------------------
PcInit ==
    /\ pcPc = [t \in Threads |-> "none"]
    /\ holder = "nobody" /\ message_count = 0 /\ data_buffer = 0 /\ printedLast = 0

\* start_application: the mutex (74), the producer (79), the consumer (84), and joins
\* that never return (91); whatever fails ends the program with all its threads.
PcMain ==
    /\ \/ PcMoves("main", "none", "createProducer")
       \/ /\ pcPc["main"] = "createProducer"
          /\ pcPc' = [pcPc EXCEPT !["main"] = "createConsumer", !["producer"] = "lock"]
       \/ /\ pcPc["main"] = "createConsumer"
          /\ pcPc' = [pcPc EXCEPT !["main"] = "join", !["consumer"] = "lock"]
       \/ /\ pcPc["main"] \in {"createProducer", "createConsumer"}
          /\ pcPc' = [t \in Threads |-> "ended"]
    /\ UNCHANGED <<holder, message_count, data_buffer, printedLast>>

\* Slip: the mutex is taken without a look at who has it.
NobodyHoldsSlip == TRUE

NobodyHolds == holder = "nobody"

\* Lines 21 and 46.
Lock(t) ==
    /\ PcMoves(t, "lock", "use") /\ NobodyHolds
    /\ t = "producer" => message_count < MaxMessages
    /\ holder' = t
    /\ UNCHANGED <<message_count, data_buffer, printedLast>>

\* Lines 32 and 62.
Unlock(t) ==
    /\ PcMoves(t, "unlock", "lock")
    /\ holder' = "nobody"
    /\ UNCHANGED <<message_count, data_buffer, printedLast>>

\* Lines 48-57, in the middle of snprintf, ...
Produce ==
    /\ PcMoves("producer", "use", "format")
    /\ message_count' = message_count + 1
    /\ data_buffer' = Torn
    /\ UNCHANGED <<holder, printedLast>>

\* ... and after it.
Formatted ==
    /\ PcMoves("producer", "format", "unlock")
    /\ data_buffer' = message_count
    /\ UNCHANGED <<holder, message_count, printedLast>>

\* Line 29.
Consume ==
    /\ PcMoves("consumer", "use", "unlock")
    /\ printedLast' = data_buffer
    /\ UNCHANGED <<holder, message_count, data_buffer>>

PcNext ==
    \/ PcMain \/ Produce \/ Formatted \/ Consume
    \/ \E t \in {"producer", "consumer"} : Lock(t) \/ Unlock(t)

-----------------------------------------------------------------------------
\* The buffer is a board with one reader, who sees whole messages and always the
\* newest one.
Messages ==
    INSTANCE Board WITH
        Readers <- {"consumer"},
        MaxRecords <- MaxMessages,
        latest <- IF data_buffer = Torn THEN message_count - 1 ELSE message_count,
        seen <- [r \in {"consumer"} |-> printedLast]

NewestMessage == Messages!BoardSpec
=============================================================================
