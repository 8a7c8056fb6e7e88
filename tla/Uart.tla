-------------------------------- MODULE Uart --------------------------------
(***************************************************************************)
(* The serial port driver, kernel/uart.c, and the 16550 it drives          *)
(* (external, modelled from what the driver relies on: with its FIFOs on,  *)
(* a byte written while another is on its way out is queued).              *)
(*                                                                         *)
(* uartstart() is called with uart_tx_lock held, by uartputc() and by the  *)
(* interrupt handler; the device runs between its steps, and so does       *)
(* uartputc_sync(), which echoes characters without that lock.             *)
(***************************************************************************)
EXTENDS Integers, SequencesExt, Sleep

CONSTANTS
  TxSize,    \* UART_TX_BUF_SIZE
  TxMod,     \* uart_tx_w and uart_tx_r count modulo this (2^64 in the code)
  RxSize,    \* receive FIFO of the device
  Letters    \* characters of text

ASSUME TxAssumption ==
  TxSize \in Nat \ {0} /\ TxMod \in Nat /\ TxMod % TxSize = 0 /\ TxMod > TxSize

VARIABLES
  tx,        \* the transmit ring: buf, w, r
  tx_lock,   \* who holds uart_tx_lock
  thr,       \* bytes in the device, on their way out
  rx,        \* bytes in the device, not yet fetched
  irq        \* the device asks for an interrupt

uartVars == <<tx, tx_lock, thr, rx, irq>>

handler == "uartintr"
txchan == "uart_tx_r"
Echo == "echo"    \* a byte of uartputc_sync()

UartInit ==
  /\ tx = [buf |-> [k \in 0 .. TxSize - 1 |-> Nobody], w |-> 0, r |-> 0]
  /\ tx_lock = Nobody
  /\ thr = <<>> /\ rx = <<>> /\ irq = FALSE

TxCount == (tx.w - tx.r) % TxMod


TxFull == tx.w = (tx.r + TxSize) % TxMod
TxEmpty == tx.w = tx.r
TxIdle == thr = <<>>    \* LSR_TX_IDLE

\* uartputc(c) with room in the ring; uartstart() is to follow.
PutRing(a, c) ==
  /\ tx_lock = Nobody /\ ~TxFull
  /\ tx' = [tx EXCEPT !.buf[tx.w % TxSize] = c, !.w = (@ + 1) % TxMod]
  /\ tx_lock' = a
  /\ UNCHANGED <<thr, rx, irq, chan>>

\* uartputc() with a full ring.
WaitRing(p) ==
  /\ tx_lock = Nobody /\ TxFull
  /\ Sleep(p, txchan)
  /\ UNCHANGED uartVars

\* The tests of uartstart(): nothing to send, or the device is busy.
StartStops == TxEmpty \/ ~TxIdle

StartEnds(a) ==
  /\ tx_lock = a /\ StartStops
  /\ tx_lock' = Nobody
  /\ UNCHANGED <<tx, thr, rx, irq, chan>>

\* After the tests: the byte goes from the ring to the device.
StartSends(a) ==
  /\ tx_lock = a
  /\ thr' = Append(thr, tx.buf[tx.r % TxSize])
  /\ tx' = [tx EXCEPT !.buf[tx.r % TxSize] = Nobody, !.r = (@ + 1) % TxMod]
  /\ Wakeup(txchan)
  /\ UNCHANGED <<tx_lock, rx, irq>>

\* The store of uartputc_sync(), after its wait for LSR_TX_IDLE.
SyncStore ==
  /\ thr' = Append(thr, Echo)
  /\ UNCHANGED <<tx, tx_lock, rx, irq, chan>>

-----------------------------------------------------------------------------
(* The device *)

\* It sends a byte, and interrupts when it has none left.
DevSend ==
  /\ thr # <<>>
  /\ thr' = Tail(thr)
  /\ irq' = (irq \/ Len(thr) = 1)
  /\ UNCHANGED <<tx, tx_lock, rx, chan>>

\* The user types c.
DevReceive(c) ==
  /\ Len(rx) < RxSize
  /\ rx' = Append(rx, c)
  /\ irq' = TRUE
  /\ UNCHANGED <<tx, tx_lock, thr, chan>>
=============================================================================
