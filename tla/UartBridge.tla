----------------------------- MODULE UartBridge -----------------------------
(***************************************************************************)
(* The transmit side of the UART, src/adapters/uart_bridge.cpp: a ring     *)
(* that the foreground fills and the TXE interrupt empties, byte by byte,  *)
(* and the flag and the register bit that start and stop the interrupt.    *)
(* tx() is split at every access to what it shares with the interrupt; the *)
(* interrupt is one step, as the foreground cannot run in the middle.      *)
(***************************************************************************)
EXTENDS Naturals, Sequences

CONSTANTS RingSize, Byte, MaxFrame

ASSUME RingAssumption ==
    RingSize \in Nat /\ RingSize > 1 /\ 0 \in Byte /\ MaxFrame \in Nat

VARIABLES
    head, tail, slots,  \* m_head, m_tail, m_ring
    enabled,            \* m_txe_enabled
    txeie,              \* the interrupt enable bit in CR1
    full,               \* the data register holds a byte (SR_TXE is clear)
    line,               \* the byte last moved to the data register
    tx                  \* tx() under way: [pc, data, head]

uart == <<head, tail, slots, enabled, txeie, full, line, tx>>

Idle == [pc |-> "idle", data |-> <<>>, head |-> 0]

UartInit ==
    /\ head = 0 /\ tail = 0 /\ slots = [i \in 0 .. RingSize - 1 |-> 0]
    /\ enabled = FALSE /\ txeie = FALSE
    /\ full = FALSE /\ line = 0
    /\ tx = Idle

\* tx() of some bytes; a frame that could never fit is refused at once.
TxCall(data) ==
    /\ tx.pc = "idle" /\ Len(data) < RingSize
    /\ tx' = [pc |-> "room", data |-> data, head |-> head]
    /\ UNCHANGED <<head, tail, slots, enabled, txeie, full, line>>

\* tx_bytes_available() for the head that was read, with all slots in use.
BugTxBytesAvailable(h) == IF tail >= h THEN RingSize - (tail - h) ELSE h - tail

\* tx_bytes_available() for the head that was read.
TxBytesAvailable(h) == IF tail >= h THEN RingSize - (tail - h) - 1 ELSE h - tail - 1

TxRoom ==
    /\ tx.pc = "room"
    /\ tx' = IF Len(tx.data) > TxBytesAvailable(tx.head) THEN Idle
             ELSE [tx EXCEPT !.pc = "store", !.head = 0]
    /\ UNCHANGED <<head, tail, slots, enabled, txeie, full, line>>

\* The loop, first statement: the byte is stored behind the tail.
TxStore ==
    /\ tx.pc = "store" /\ tx.data # <<>>
    /\ slots' = [slots EXCEPT ![tail] = Head(tx.data)]
    /\ tx' = [tx EXCEPT !.pc = "advance"]
    /\ UNCHANGED <<head, tail, enabled, txeie, full, line>>

\* Second statement: from here on the interrupt sees the byte.
TxAdvance ==
    /\ tx.pc = "advance"
    /\ tail' = (tail + 1) % RingSize
    /\ tx' = [tx EXCEPT !.pc = "store", !.data = Tail(@)]
    /\ UNCHANGED <<head, slots, enabled, txeie, full, line>>

\* if (!m_txe_enabled) m_txe_enabled = true, once the ring is filled.
TxCheck ==
    /\ tx.pc = "store" /\ tx.data = <<>>
    /\ tx' = IF enabled THEN Idle ELSE [tx EXCEPT !.pc = "enable"]
    /\ enabled' = TRUE
    /\ UNCHANGED <<head, tail, slots, txeie, full, line>>

TxEnable ==
    /\ tx.pc = "enable"
    /\ txeie' = TRUE
    /\ tx' = Idle
    /\ UNCHANGED <<head, tail, slots, enabled, full, line>>

TxStep == TxRoom \/ TxStore \/ TxAdvance \/ TxCheck \/ TxEnable

\* uart1_isr() that stops the interrupts and keeps the flag.
BugUsart1Isr ==
    /\ txeie /\ ~full
    /\ IF head # tail
       THEN /\ line' = slots[head] /\ full' = TRUE
            /\ head' = (head + 1) % RingSize
            /\ UNCHANGED txeie
       ELSE txeie' = FALSE /\ UNCHANGED <<line, full, head>>
    /\ UNCHANGED <<tail, slots, tx, enabled>>

\* uart1_isr(): one byte to the data register, or no more interrupts.
Usart1Isr ==
    /\ txeie /\ ~full
    /\ IF head # tail
       THEN /\ line' = slots[head] /\ full' = TRUE
            /\ head' = (head + 1) % RingSize
            /\ UNCHANGED <<enabled, txeie>>
       ELSE /\ txeie' = FALSE /\ enabled' = FALSE
            /\ UNCHANGED <<line, full, head>>
    /\ UNCHANGED <<tail, slots, tx>>

\* The hardware moves the byte on to the line.
Shift == full /\ full' = FALSE
           /\ UNCHANGED <<head, tail, slots, enabled, txeie, line, tx>>

\* The bytes between head and tail.
Contents == [i \in 1 .. (tail + RingSize - head) % RingSize |->
               slots[(head + i - 1) % RingSize]]
=============================================================================
