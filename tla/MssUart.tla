------------------------------- MODULE MssUart -------------------------------
(***************************************************************************)
(* The UART driver (mss_uart.c) as the HVPS driver uses it: a command is   *)
(* sent by polling, a reply is collected by the receive interrupt, which   *)
(* the core raises for four bytes, or for fewer if no more come for a      *)
(* while.  Between the two ends of the line a byte is a symbol: the        *)
(* letters of a command or a reply, a value, or the carriage return.       *)
(***************************************************************************)
EXTENDS Integers, Sequences

CONSTANT TX_FIFO_SIZE

ASSUME FifoAssumption == TX_FIFO_SIZE \in Nat \ {0}

VARIABLES
    tx_size,    \* symbols of the command that are not in the FIFO yet
    tx_fifo,    \* symbols in the transmit FIFO
    rx_fifo     \* what was received and not read

uartVars == <<tx_size, tx_fifo, rx_fifo>>
-----------------------------------------------------------------------------
(* Seeded fault. *)
MSS_UART_polled_tx_Once ==
    /\ tx_size > 0 /\ tx_fifo = 0
    /\ tx_fifo' = IF tx_size < TX_FIFO_SIZE THEN tx_size ELSE TX_FIFO_SIZE
    /\ tx_size' = 0
-----------------------------------------------------------------------------
MSS_UART_init ==
    /\ tx_size = 0
    /\ tx_fifo = 0
    /\ rx_fifo = << >>

\* Once the FIFO is empty (THRE), it is filled.  The last time, the loop ends with
\* the symbols still in the FIFO.
MSS_UART_polled_tx ==
    /\ tx_size > 0 /\ tx_fifo = 0
    /\ tx_fifo' = IF tx_size < TX_FIFO_SIZE THEN tx_size ELSE TX_FIFO_SIZE
    /\ tx_size' = tx_size - tx_fifo'

\* What MSS_UART_get_rx reads: all there is, up to the size it is told.
MSS_UART_get_rx(buff_size) ==
    SubSeq(rx_fifo, 1, IF Len(rx_fifo) < buff_size THEN Len(rx_fifo) ELSE buff_size)

\* IIRF_RX_DATA or IIRF_DATA_TIMEOUT: the handler is called.
MSS_UART_isr(handler) == rx_fifo # << >> /\ handler
=============================================================================
