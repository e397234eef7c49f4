# A formal model of the CUBES firmware

CUBES is a payload experiment: a Citiroc ASIC and FPGA gateware that fill
histograms of particle energies, a bias-voltage supply (HVPS, a C11204-02), a
housekeeping (HK) ADC and a Cortex-M3 that ties them together and talks to the
on-board computer (OBC) in MSP frames over I2C. This directory holds TLA+
modules for the firmware's own logic, TLC configurations that model-check them
on small instances, and TLAPS proofs of what they show for every value of the constants: of the
protocol, the main loop, the drivers and the memory map.

    tlc -workers 2 -config MCMspExp.cfg MCMspExp      # one run
    tlapm Msp_proofs.tla                              # one proof module

`PROJECT.json` maps every definition to the lines it models and lists the runs,
the seeded faults that each property must detect, the hazards and the theorems.

## 1. The system

The firmware is one infinite loop in `main()` and four interrupts. `main.c` never masks
one, so each may come between any two statements of the loop; only `mss_i2c.c` masks them, for
the few statements in which it starts a transfer or changes a buffer. I2C0 and UART0 have the highest
priority, I2C1 and Timer1 the next, the loop the lowest.

| Part | State | Operations | Module |
|---|---|---|---|
| MSP sequence flags (`msp/msp_seqflags.c`) | per opcode: initialised?, value; four words of bits of each | get, get_next, is_set, set, `msp_get_flag_pos` | `SeqFlags`, `SeqWords` |
| MSP state machine (`msp/msp_exp_callback.c`, `msp_exp_state.c`, `msp_exp_frame.c`) | `msp_exp_state` | one frame received, one frame sent; callbacks to the application | `MspExp` |
| MSP handler interface (`msp/msp_exp_handler.h`) | the transaction the application is engaged in | order of the callbacks | `MspHandler` |
| OBC and bus (external) | command under way, its transaction-ID | send, repeat, start over | `MspLink`, `MspDelivery` |
| Command hand-over (`main.c`) | `has_send`, `has_recv`, `has_syscommand`, `recv_data` | callbacks fill them in the I2C1 interrupt, the loop serves and clears them | `CubesMain` |
| HK, DAQ and payload (`main.c`) | HK values, `hk_timer_trig`, `end_daq_hk_time`, `end_daq_hk_ready`, payload buffer | HK round, preparation, announcing, reading, clearing | `CubesData` |
| Re-binning (`main.c`) | indices, `bin`, `carry_over` | `get_num_bins`, `prep_payload_data` | `Rebin` |
| HVPS driver (`hvps/hvps_c11204-02.c`) | `hvps_cmd`, `hvps_reply`, ready flag, counters | send and wait; UART interrupt | `Hvps` |
| HK ADC driver (`hk_adc/hk_adc.c`) | `read_value`, the arrays of samples | read, write, poll, convert, average | `HkAdc`, `HkI2c` |
| Memory map (`mem/mem.h`) | where everything is kept | - | `NvmMap` |
| Saved flags (`mem/mem.c`, `main.c`) | flags, clean mark | save, restore, mark | `PowerCycle` |
| Citiroc configuration (`main.c`) | slots, stored ID, `conf_id`, what the ASIC runs | boot, send, store, select | `CitirocConf` |
| I2C driver (`mss_i2c.c`) | transfer, indices, registers | one step of `mss_i2c_isr` per status, as a master and as a slave | `MssI2cMaster`, `MssI2cSlave`, `MspI2c` |
| eNVM driver (`mss_nvm.c`) | controller access, locks, WD buffer, status | unlock, write, protection check | `MssNvm`, `NvmProtection`, `NvmStore` |
| UART driver (`mss_uart.c`) | FIFOs, bytes left to send | polled transmission, receive interrupt | `MssUart` |

How they interact: the I2C1 interrupt calls `msp_recv_callback` and then
`msp_send_callback` for every write of the OBC. These call back into `main.c`
(`msp_exprecv_*`, `msp_expsend_*`), which leaves an opcode in a one-place
mailbox. The loop polls the mailboxes between HK rounds and calls the drivers. The
HVPS driver waits in the loop for a flag the UART interrupt sets, the HK ADC's driver for
the status of a transfer that the I2C0 interrupt moves on byte by byte. POWER_OFF
saves the sequence flags, the boot restores them; both and the Citiroc's configurations go
through `mem_write_nvm` to the eNVM driver, which programs whole pages.

What makes each part correct, and what is hard about it:

* *MSP*: a command is carried out exactly once although frames are lost,
  corrupted and repeated; acknowledgements are truthful; each transfer is handed
  over whole and in order. Hard: one-bit IDs, transfers given up half way.
* *Hand-over*: no command is lost, doubled or mixed up. Hard: the interrupt may
  come between any two steps of the loop, and shares the mailbox and the buffer.
* *HK and payload*: a response is of one DAQ and whole; the HK is current once the loop had time to
  take it; the header has the HK of the end of its DAQ; every DAQ's payload is prepared. Hard: four
  parties and no lock.
* *Re-binning*: every bin of the payload is the average of the bins it stands
  for. Hard: 32-bit words of two bins, bins that end within a word.
* *HVPS*: a return value speaks for the command just sent; the counters add up; no
  wait for ever; no voltage above the limit.
* *HK ADC*: a good sample is of the channel and the call it is returned for. Hard: errors
  that are not looked at, a start bit that is lost in a byte.
* *I2C*: a transfer that succeeds was done by the other end, in order; one that fails ends; a
  write of the OBC is handed over whole and once, a read starts at the first byte of the
  right reply. Hard: both ends may stop, refuse or be disturbed at any byte.
* *Power*: flags that are restored are current; nothing is acknowledged undone because of a
  power cycle, and nothing done twice unless flags were lost. Hard: power that fails between any two steps.
* *Non-volatile memory*: what was stored is there, its neighbours are untouched, a good status
  says so. Hard: items that share pages, pages that fail, warnings that hide errors, power cuts.
* *Configuration*: the ASIC runs what the header reports, and what was selected.

### Not modelled

* *Vendor code that nothing calls*: the system services (`mss_sys_services`, `mss_comblk`, about
  5000 lines); in the I2C driver SMBus, write-read, general calls, holding the bus and lost
  arbitration (no bus has two masters); in the UART driver interrupt-driven transmission, line
  errors, and the LIN, smart-card and IrDA modes; in the eNVM driver
  `NVM_read_page_write_count`, the setting of ENVM_CR, and the two silicon versions whose pages
  cannot be unlocked.
* *No state or no decisions*: register headers, CMSIS, HAL, start-up code, the GPIO and timer
  drivers, `led.c`, `timer_delay.c`, `cubes_timekeeping.c`, the register accessors of the
  Citiroc gateware, the reset counter, PROB_CONF, READ_REG_DEBUG, CALIB_PULSE_CONF and GATEWARE_CONF.
* *Pure functions*: CRC-32 and byte order (in the models a frame is valid or it is rejected),
  the conversion of HVPS words.

Most lines of the repository are of the first two kinds. The map therefore covers nearly all of the
firmware's own logic, and of the vendor drivers what this firmware runs, but a small share
of all lines.

## 2. The modules

### Protocol

**SeqFlags** has the flags of the opcodes as a record of two sets. **SeqWords** has them as
the code does, in words of sixteen bits, with the word and bit of each of the 128 opcodes; `AsSets`
maps one to the other, and every operation is proved to agree with its namesake in SeqFlags.
**MspExp** has one action per kind of frame received (`RecvData`, `RecvFAck`, `RecvTAck`,
`RecvSystem`, `RecvRequest`, `RecvSend`, `RecvNull`, `RecvRejected`) and per
reply (`SendResponse`, `SendData`, `SendTAck`, ...); `phase` alternates, as
`I2C1_SlaveWriteHandler` does. The callbacks a step makes are left in `calls`.
A frame is a record; its data are its length. The OBC is arbitrary: any frame at any
time. `HandlerView` maps the state to the transaction of **MspHandler**, the
abstract specification: `HandlerContract == Handler!Spec` is checked and proved.

**MspLink** adds the OBC that repeats itself until it is answered and a link that
corrupts frames both ways; **MspDelivery** is what it promises: each command is
carried out once, in order. The OBC's rules are external, taken from the frames the
code accepts: it starts over with NULL, and repeats a T_ACK that was lost.

**MssI2cSlave** is the slave half of `mss_i2c_isr`, one action per status; **MspI2c** puts it on a
bus whose master may write too much or nothing, read part of a reply, and stop anywhere. It shows what
MspLink takes for granted of an exchange: `I2C1_SlaveWriteHandler` gets each write once and whole, and
what the OBC reads is the reply to its last write.

### Main loop

**CubesMain** `EXTENDS MspHandler`: the callbacks come as that contract has them.
Every test of a mailbox, every byte read from `recv_data`, every clear is a
step of its own. `discipline` is what the OBC waits for before its next command.
**CubesData** has one action per step of the loop that touches shared state, the timer
interrupt, the DAQ in the gateware (external) and the OBC. What `main()` does in several statements is
several actions, and a tick, a request or the end of the DAQ may come between them: looking at the request, filling
`send_data_hk` and clearing the mailbox (`TakeRequest`, `FillHk`, `ClearRequest`); setting `end_daq_hk_time`
and starting the DAQ (`PrepDaq`, `citiroc_daq_start`); latching its HK and stopping it (`EndDaq`,
`citiroc_daq_stop`). The interrupt sends what the buffers hold, filled or not. **Rebin** produces one bin of
the payload per step.

### Drivers

**Hvps** `EXTENDS MssUart`: the command leaves through the transmit FIFO of the
driver, the reply comes back in pieces of any size, for each of which
`UART0_RXHandler` runs; `Due` is the list of commands each caller in `main()` sends.
A reply is a short row of symbols: letters, a value, the carriage return.

**HkAdc** has a transfer as two moments: the ADC does its part, and the driver is told, rightly or
not. **HkI2c** is the same driver on **MssI2cMaster**, where a transfer is a start, an address, a
byte at a time and a stop, each an interrupt, and each may be refused or hit by a bus error. `HkContract
== HkSpec` says that HkI2c implements HkAdc, variable by variable.

### Non-volatile memory

**NvmProtection** is `check_protection_reserved_nvm` with the table of areas of each device family and
the rules for locking; **NvmMap** is the map of `mem.h`, about which it is asked. **MssNvm** is
`mem_write_nvm` on the driver: access to the controller, `NVM_unlock` page by page (which programs the
page as well), `NVM_write` page by page through the WD buffer, and the status that survives
from page to page. The memory is external: it programs, refuses, spoils part of a page or
warns that the page is worn. **NvmStore** is what storing bytes promises, and `StoreContract == Store!StoreSpec` that
MssNvm keeps it. **CitirocConf** `EXTENDS MssNvm` with the slots, the selection, the boot and power
that fails anywhere. **PowerCycle** has one step per item saved, where a write is done or not: its items
have pages of their own (`PagesAreApart`) and it distinguishes nothing finer.

### Form

Each module ends its constants, variables and actions with its properties. The
operators under "Seeded faults" are plausible bugs, which replace a definition
to see that a property notices; no specification uses them.

## 3. The runs

| Run | Shows | Bounds |
|---|---|---|
| `msp_exp` | acknowledged is done, in progress is new, exactly once, the handler contract, against an arbitrary OBC | MTU 2, lengths 0-3 and 5 (no frame, part of one, one, two, three), one flagged opcode of each kind, two without a flag |
| `msp_link` | exactly-once delivery, bytes in place, every command confirmed once the link works | 3 commands, one opcode of each type, MTU 2, lengths 0, 1, 4, 5 (up to three frames), one start-over by the OBC |
| `main` | which commands are lost, repeated, mixed up or overtaken under each discipline | 2 commands: one under way and the one that races it; buffer of 2 bytes, lengths below and above |
| `data` | responses of one DAQ, HK current when the loop had a pass for it, header HK, payload always prepared | 2 DAQs of 2 s, the shortest that are prepared for certain (with 2 or 3 s, `MCTwoOrThree`, the safety properties and the inductive invariant were checked too), 1 or 2 frames, two different binnings; requests, reads and abandoned reads at any pace |
| `rebin` | averages, partition, announced length | two histograms of 2048 bins, tables of `main.c`, bin_cfg 0, 1, 6 (from 9), 11 (from 10), 12 (from 200) |
| `hvps` | replies fit the buffer, counters, genuine results, switching, every job ends | jobs until 3 commands were sent, every mix of good, refused and garbled replies, in pieces of any size; a FIFO of 2 and a buffer of 3 symbols, below the command's and at the reply's length |
| `power` | restored flags current, nothing swallowed, what may be doubled | three flagged opcodes, power failing anywhere, NVM writes failing; a steady supply is cut once `main()` is done with POWER_OFF, whether or not its T_ACK arrived and whether or not the flags could be saved and marked |
| `i2c_hk` | transfers are what HkAdc takes them for, good samples are genuine, rounds end | two rounds of 3 channels with 3 samples, two errors at any address or byte: two are needed to spoil one sample while another is still in doubt |
| `i2c_msp` | whole writes once, replies from the start, the address acknowledged again | a buffer of 3, two values of bytes, 3 writes of any length (beyond 3 is refused), any reads, one bus error anywhere |
| `citiroc_conf` | slots whole, header truthful, selection kept, what a write promises | pages of 8 bytes and slots of 9 (for 128 and 144): two slots that share pages, two contents, one fault or spoilt page anywhere and any number of clean power cuts, two protections (with and without locking) |

The bounds are on histories (`MaxCommands`, `MaxDaqs`, `MaxCmds`, `MaxRounds`, `MaxWrites`), on
faults (`MaxFaults`) or on sizes.
One-bit IDs need two consecutive commands of an opcode to be confused, a mailbox of one
place two commands, a payload two DAQs. No state-space constraint is used. Deadlock is
not checked where the bound on a history lets the system stop (`msp_link`, `rebin`, `hvps`, `i2c_hk` and
the two runs below); in all others it is.

Two runs end in a counterexample and are listed as findings:

* `hvps_voltage`: `voltage_less_than` checks the command sent *before*, so
  `hvps_set_temp_corr_factor` never refuses a voltage (`hvps_c11204-02.c:164`).
* `rebin_log`: log-scale bins on word boundaries start from the value of the previous
  bin (`main.c:937`; `bin` is cleared per histogram at 923). `BinsAreAverages`
  holds for all other bins.

### What the passing runs assume, and what happens otherwise

Each assumption is a constant. Change it in the .cfg, and TLC shows the
counterexample described:

| Constant | Assumed | Otherwise |
|---|---|---|
| `Patient` (CubesData) | the OBC lets the loop prepare the payload, and reads it before it changes DAQ_CONF (nothing is assumed of its requests for HK) | FALSE: the last DAQ's payload offered as the next one's, a DAQ started over another without end-of-DAQ HK; `HkReadyWhenAsked` holds |
| `RdyAtBoot` (CubesData) | the gateware is ready before its first DAQ | FALSE: the end-of-DAQ HK is latched before any DAQ, and the first DAQ's header lacks it: `EndOfDaqHkInHeader` fails |
| `Durations` (CubesData) | at least 2 s | {1} (`MCOneSecond`): the DAQ may be over before the loop latches its HK: `EndOfDaqHkInHeader` and `WholePayload` fail, and `PayloadPrepared` as the payload is never prepared (`main.c:325`, 344); 0 wraps to 255 in `end_daq_hk_time` |
| `EarlyReply` (Hvps) | the HVPS needs longer to answer than the loop to clear the ready flag | TRUE: the reply is forgotten and `main()` waits for ever (`hvps_c11204-02.c:536-540`) |
| `LostCR` (Hvps) | no carriage return of a reply is lost on the line | TRUE: `main()` waits for ever (`hvps_c11204-02.c:540`) |
| `StrayDigits` (Hvps) | what follows `valstr` on the stack is no hexadecimal digit | TRUE: `hvps_is_on` reads another status, and the output is left as it should not be |
| `Silent` (PowerCycle) | the OBC is silent until the boot is over and after POWER_OFF | without `"boot"`: a command that comes before the flags are restored is carried out twice, and the restored flags, which lack it, let a later one be acknowledged undone (`main.c:214`, 223); without `"power_off"`: flags change after they were saved. In either case none of the three properties holds |
| `NvmFails` (PowerCycle) | clearing the clean mark works (saving and marking may fail) | `"clear"`: out-of-date flags are restored, and none of the three properties holds |
| `Disciplines` (CubesMain) | under `"none"` only `AtMostOnce` is claimed | commands that are acknowledged are lost, or run on the bytes of another |

Some properties name an exception, because the code has one:

* `GoodSamplesGenuine`: an error in a poll is not looked at (`hk_adc.c:126`) and spoils the sample and
  the next; one in the write of CONFIG, which the ADC may have taken, the next. `doubt` counts them.
* `HkReadyWhenAsked`: the HK is claimed to be current, and of one round, when the loop had a whole pass
  between two requests and another between the request and the first data frame (`spaced`, `passes`). A frame
  read sooner has what the buffer held before, or a half of each (`main.c:1060`); a request that follows another sooner
  may be dropped with it (`main.c:458`), and then all of its frames do. `main.c:284-286` wants no such wait.
* `EndOfDaqHkInHeader`: when a tick comes between `main.c:691` and 692, the HK is latched a second early, in a DAQ of
  2 s at its start; `early` counts such ticks, and allows for that one second.
* `CarriedOutOnceOnly`: flags are lost when power fails before they were marked as saved, and when saving or
  marking them fails (`main.c:671-675`, `msp_exp_state.c:32`). A command whose T_ACK was lost is then carried out again
  when the OBC repeats it after the boot. `unmarked` says that this happened; with a steady supply the only
  such command is POWER_OFF itself, and the property says so.
* `SlaveListens`: a bus error while AA is clear leaves it so (`mss_i2c.c:1069`), and the payload does not answer its
  address until it is reset (`deaf`). AA is clear once a write has filled the buffer, when the payload is to refuse
  a further byte, and when the last byte of a reply is on its way.
* `WholeConf`, `SelectionKept`: what a fault or a power cut spoilt (`bad`) is not claimed to be whole.
* `StoreContract` lets a good status be answered only when every byte is there: a page
  that is only worn is a warning (`NVM_WRITE_THRESHOLD_WARNING`) and good.

## 4. Fairness

* `CubesMain`: weak fairness of the loop (it always runs again, as interrupts end), and
  strong fairness of finding `has_send` empty: the OBC does not have a new request pending each
  time the loop comes round. Without it, a busy OBC starves `has_recv`: the chain is `if / else if`.
* `CubesData`: weak fairness of the loop, of the timer and of the end of a DAQ. None of the OBC.
* `Hvps`: weak fairness of the loop, the UART interrupt, and of a module that answers.
* `HkI2c`: weak fairness of the driver in the loop, of the interrupt, of a conversion, and of the steps
  of a bus without a fault: the I2C core always reports something next. None of the faults.
* `MspLink`: weak fairness of the link's steps, and strong fairness of undisturbed
  exchanges: the link may corrupt any number of frames, but not all for ever.
* `Rebin`: weak fairness; `prep_payload_data` is a terminating loop.
* `MspExp`, `PowerCycle`, `MspI2c`, `CitirocConf` and the abstract modules: none, only safety is claimed.

## 5. The proofs

The theorems hold for every value of the constants that meets the named assumptions of the modules: any
set of opcodes, MTU and lengths, any number of samples, rounds, writes, commands, DAQs and faults, any
memory, slots and contents; those of the memory map for every device, offset and length, and all 254 slots.

| Module | Theorem | States |
|---|---|---|
| `Msp_proofs` | `TypeCorrect` | `Spec => []TypeOK` |
| | `InProgressAreNew`, `AcknowledgedAreDone`, `ResponsesNeverRunDry` | the invariants `InProgressIsNew`, `AcknowledgedIsDone`, `NeverRunsDry` |
| | `ExactlyOnce` | `Spec => CarriedOutOnce`: a flagged transaction is carried out exactly when its flag takes a new value |
| | `Implementation` | `Spec => HandlerContract`: the state machine implements the contract |
| | `LinkInvariance` | `LinkSpec => []LinkIInv`: how the OBC and the experiment fit together in every stage of a command |
| | `DeliveredExactlyOnce` | `LinkSpec => ExactlyOnceDelivery`: the link implements `MspDelivery` |
| | `BytesAreInPlace`, `CompleteOnlyAfterDelivery` | `BytesInPlace`, `CompleteAfterDelivery` |
| `PowerCycle_proofs` | `PowerTypeCorrect` | `PowerSpec => []PowerTypeOK` |
| | `CarriedOutOnce` | `CarriedOutOnceOnly`: nothing is done twice because of a power cycle unless the flags were lost; with a steady supply that is POWER_OFF alone, after a save or a mark that failed |
| | `FlagsRestoredAreCurrent`, `NothingIsSwallowed` | `RestoredFlagsCurrent`, `NothingSwallowed`: flags restored are current, and none stands for a command that was not carried out |
| `CubesMain_proofs` | `NoCommandTwice`, `ActsOnWhatWasSent`, `NoCommandLost`, `CommandsInOrder` | the four invariants of the hand-over, each under the discipline of the OBC it names |
| `CubesData_proofs` | `DataInvariant`, `PayloadIsWhole`, `HeaderIsOfEndOfDaq`, `HkIsCurrent` | the inductive invariant; `WholePayload`, `EndOfDaqHkInHeader`; `DataSpec => HkReadyWhenAsked`, under no assumption |
| | `BinsTile`, `Averages`, `LengthIsAnnounced` | `RebinSpec => []BinsPartition`, `[]BinsAreAverages`, `[]LengthAsAnnounced` |
| `Hvps_proofs` | `HvpsInvariant`, `RepliesFit`, `CountersAgree`, `ResultsAreGenuine`, `ErrorsAreNamed`, `OutputIsAsAsked` | the inductive invariant; `ReplyFits`, `CountersAddUp`, `ResultIsGenuine`, `ErrorNamesCommand`, `SwitchedAsAsked` |
| `MspI2c_proofs` | `I2cInvariant`, `WritesAreHandedOver`, `RepliesAreReadFromStart`, `PayloadListens` | the inductive invariant; `HandedOver`, `ReadsFromStart`, `SlaveListens` |
| `HkI2c_proofs` | `HkInvariant`, `SamplesAreGenuine` | what the ADC converts, and last converted, is of the current sample unless an error left it in doubt; `HkSpec => GoodSamplesGenuine` |
| | `TransfersAreAsTaken` | `HkI2cSpec => HkContract`: the transfers, byte by byte, implement those HkAdc has in one step |
| | `SamplesAreGenuineByByte` | so `GoodSamplesGenuine` holds byte by byte too |
| `Nvm_proofs` | `PositionsDiffer`, `WritesAgree`, `ReadsAgree` | `msp_get_flag_pos` is injective; the words of bits behave as the sets of SeqFlags |
| | `WritableRanges`, `MapIsWritable` | the driver lets a range be written exactly if it is in the memory and no byte of it is reserved or protected, on every device family; everything in the map may be written on the device in use |
| | `SlotsAreApart`, `PagesAreApart` | no two slots share a byte; no other items share a page |
| | `PiecesFit`, `BufferIsPage` | a piece of `NVM_write` lies in one page of 128 bytes; the WD buffer holds the data and around them what the page held |
| | `ReportIsTrue` | `ConfSpec => []ReportedSlotRuns`, whatever memory and supply do |
| | `MapFits` | the map of `mem.h` meets `ItemsFit`, which the next three assume |
| | `StoreKeepsContract` | `ConfSpec => StoreContract`: driver, memory and power cuts implement `NvmStore` |
| | `ConfsAreWhole`, `SelectionIsKept` | `WholeConf`, `SelectionKept` |

### What they assume

Nothing beyond the assumptions of the modules, with these exceptions. Each is stated in the theorem, and
but for the first is one of the constants of section 3, where the counterexample without it is described.

* Those of the link: `AllFlagged`, every opcode the OBC uses has a sequence flag. `msp_get_flag_pos` finds
  one for all of `msp_opcodes.h`; the bounds on commands and restarts play no part in the proofs.
* The four of the power cycle: `Orderly`, the OBC is silent during the boot and after POWER_OFF, and the
  clean mark can be cleared. Any other write may fail, and any supply is allowed.
* Those of `Hvps`: `LongEnough`, `hvps_reply` holds the longest reply of the module; `OutputIsAsAsked` also
  `StrayDigits = FALSE`. Replies that come too early, or lose their carriage return, are
  allowed: they harm only liveness.
* Those of `CubesData`, but for `HkIsCurrent`, which assumes nothing: `ObcIsPatient`, `ReadyAtBoot` and
  `SecondsToSpare` (2 to 255 s, the bytes for which the HK is latched).
* Those of the store and the configurations: `ItemsFit`, pages of 128 bytes and words of four, slots and the stored ID
  in memory, apart from each other, and writable. `MapFits` derives it from the addresses of `mem.h`, the
  device, and `UsedPages` that have the pages of what is stored. (TLC's run has pages of 8 bytes,
  and the inductive invariant was checked there too.)

Assumptions the code justifies were added to modules as the proofs needed them: in `CubesMain` opcodes of different
types differ and frames are not empty; in `CubesData` the binnings are finitely many, so one of them is the longest;
in `CitirocConf` a body is a string of numbers; in `Rebin` the widths of 2 to 64 bins divide the number of
bins (2048), the tables are sequences of numbers with two limits at least, and a bin of the RAM is a number of 16
bits (half a word of 32, `main.c:897`).
In `Hvps` a proof that would not go through showed a `CASE` with two arms for one command, of which TLC takes
the first; `Due` is written with disjoint ones now.

### The arguments

*The protocol.* None of its invariants is inductive: that a T_ACK stands for a deed
needs that a transaction under way is new, that a repeated one was done, and that
the opcode fits the state. `IInv` in `MspExp` is the conjunction of the type
invariant with `OpcodeFitsType`, `LengthsAgree`, `DuplicateWasDone` and the three invariants.
`Msp_proofs` shows that it is kept with one step per action, from lemmas on flags (setting a flag makes
it set, the next flag is not set, and no other flag moves). `ExactlyOnce` follows from `IInv` step by
step; `Implementation` maps `Init` to the contract's initial state and
every step to a step of the contract or a stutter, again under `IInv`.

*The link.* Exactly-once delivery is a matter of what each end knows of the other. `LinkIInv` says it by the stage
of the OBC's command (`Match`): while the OBC waits for an acknowledged header, or frame k, the experiment is in
one of two or three states, the frame having arrived or not, been answered or not. Both ends count on the same
transaction-ID except between execution and confirmation (`FlagsAgree`), so a repeated header is a duplicate
exactly if the command was carried out (`FlagTells`); and the last reply tells the experiment's state (`Answer`), so
that the OBC draws the right conclusion from it even if it is late. One lemma per frame and per reply, and one per
conclusion the OBC draws. A first form of `FlagsAgree` held in the run and was not inductive: it left open
which flag a new command finds.

*The power cycle.* That the restored flags are current is not inductive: the mark must speak
for the saved flags from the step before it is written (`MarkIsTrue`), which needs that nothing new is
carried out once POWER_OFF was taken (`NothingNew`); that nothing is swallowed needs that the OBC's next
ID is set only for a command it waits for (`IdsAgree`). When something is done twice its flag was lost, and
`NothingForgotten` follows that to its cause: while power is off, and when `main()` is done with POWER_OFF, either
the mark is there, and speaks for all flags, or `unmarked` records that it could not be. With a steady supply that
happens only once POWER_OFF is all the OBC may still wait for. `PowerIInv` is their conjunction.

*The hand-over.* `AnyIInv` counts: what was carried out, and what is in a mailbox or being carried out, is at
most what was completed (`NoneTwice`, an inequality, since a mailbox may be overwritten). For an OBC that waits, `PatientIInv`
turns it into an equation and adds that a mailbox and the buffer stay as they are until the loop has
cleared them; for the order, `IdleIInv` adds that at most one command is on its way.

*DAQ and payload.* `DataIInv` follows one DAQ. In its last second an HK round reads HK and latches it, since the next
tick waits for that round to end (`Round`, `Latched`); so the DAQ ends with its HK in the header and its
payload due. Between the two steps of starting and of stopping a DAQ (`Halfway`) a tick may bring this forward
by a second, and by no more: it is not overtaken by a second tick, and the HK round it asks for comes after the start.
A patient OBC leaves the loop alone until the payload is prepared (`Waited`), and from a request to its
end the buffer stays as it is (`Buffer`, `Reads`).

`HkIsCurrent` has an invariant of its own, `Served`: a pass of the loop serves the mailbox, so after a whole pass it is empty,
and a request that comes then is looked at by the pass under way or the next, which fills the buffer with what was
read last before it clears the mailbox. So once the mailbox is empty again nothing is owed.

*The HVPS.* `HvpsIInv` follows a command through four stages (prepared, being sent, being replied to, answered). The
reply is spread over `hvps_reply`, the FIFO and the line, and `Symbol(k)` is its k-th
symbol wherever it is: moving it along changes none, so that it tells the truth from end to end.

*The I2C slave.* `I2cIInv` says for each state of the bus and each status what the driver has kept: what was
received and the byte that is reported are a prefix of what the OBC wrote, `tx_idx` is one ahead of what it read.

*The HK ADC.* `HkInv` follows one conversion. Without a doubt about it the ADC is idle until
CONFIG is written (so the bit that was read, and is written back, is the start bit), converts this
sample or holds it from then on, and holds it once a poll was answered (`Undoubted`). With a doubt the
ADC may be doing anything, but a poll that was answered shows it idle, so the next sample
starts from an idle ADC (`Answered`). `BytesIInv` follows one transfer: what each leg of an access asked for (`Legs`), when a start and a
stop are due (`StartStop`), which status belongs to which state of the bus (`Reported`), and how many bytes each
side has (`Writing`, `Receiving`). Under it only the last byte written, and the first one read, is a step of HkAdc:
`TakeImplements` and `ReceiveImplements`; and a transfer reported as a success was one: `Outcome`.

*The store.* `NvmIInv` follows a call of `mem_write_nvm`. While pages are unlocked, those before the next one are
(`Unlocking`); while they are written, those from the next byte on are, that byte begins a page unless it is the
first, and what lies before it is in memory (`Writing`). So no page is found locked, and the status at the end is good
exactly if nothing failed, with every byte in its place (`Ended`). `BufferIsPage` gives that a page
programmed from the WD buffer changes the bytes asked for and no others, `PiecesFit` that the pieces end with their pages; a
step therefore changes no byte that does not count as bad (`Frame`). Each step of driver, memory or supply is then a
step of `NvmStore`, or a stutter.

*The configurations.* `ConfIInv` adds that an ID being stored is the selection's, so that the ID in memory is too
unless it counts as bad (`IdKept`), and that the slot selected last holds its own ID, unless it was spoilt
(`SelectionValid`). By `Frame` they and `WholeConf` are kept by everything but the end of a call, which
touches one slot or the ID, and these are apart. `SelectionKept` follows: at boot the stored ID is the
selection's, and its slot valid.

*The bins.* A histogram begins with a word. In bins of equal size the next word is where the last bin ended
(`Position`); in those of a table a bin is computed from its limits, and `carry_over` is the parity of
the limit: it is odd only between two single bins, so each half of a word is taken once. With `BinsTile` the
bins a value stands for are known, and that there are 2^c of them, all in the RAM (`LimitsWithin`, `EmittedLies`);
their sum is at most 65535 times their number (`SumBound`), so the average is not cut (`EqualAverages`). Of
the log-scale bins only the single ones are copies; the others have an even size (`LogAverages`). For the length,
`LengthIInv` says that the bytes written are those of the histograms done and of the bins of this one.

*Sums.* Both rest on what a fold of the library computes, which the provers do not know: it is a recursive
function, and `CHOOSE` says nothing of it before such a function is shown to exist. The library's induction theorems take an operator
as parameter, which cannot be instantiated here; `SmallestSet` takes their place: the strict subset relation on finite sets
is well-founded, so the finite sets for which a claim fails, if there are any, have a smallest. From it: the sum is well-defined (`SumsAgree`, `SumExists`, `SumIs`), any
element may be taken out first (`SumTakesOut`), it is a number, and bounded (`SumType`, `SumBound`).

*Words, map and pages* are arithmetic: `Nvm_proofs` distinguishes
custom and standard opcodes, areas and items, and whether a range ends with the page. `ReportIsTrue` needs no
strengthening: header and ASIC change together, and a slot is applied only if its last byte is its ID.

### Model-checked only

Liveness: `EveryCommandConfirmed`, `EveryCommandExecuted`, `PayloadPrepared`, `EveryJobEnds` and `RoundsEnd`, which is
beyond the prover. Every safety property of the passing runs is a theorem.

Proved and in no run of their own: `NeverRunsDry`, a part of `IInv`, and `PowerTypeOK`.

## 6. Plan

1. *Done*: the stateful logic of the firmware, and what it runs of the vendor drivers, modelled and
   checked; every safety property of the passing runs proved.
2. Compose: PowerCycle on MssNvm as CitirocConf is; MspLink on MspI2c, its frames cut off as the bus does.
