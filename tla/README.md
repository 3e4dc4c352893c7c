# Verification of the Nios II / ESP8266 menu

The repository builds one small embedded product: an Altera FPGA with a Nios II/e
processor, four push buttons, four LEDs, a character display (HD44780 type) that
hangs on a custom instruction, and a UART to an ESP8266 Wi-Fi module.  The user
picks one of five options; the program shows the option's answer and publishes a
message about it over MQTT.

Beside the two programs the repository holds the board support package they are
built with: the HAL with its file descriptors, and two drivers with interrupts.

Paths below are relative to the repository.  Five abbreviations:

| short  | file |
|--------|------|
| `main1.c` | `Code in C/hello_world_small.c`, the menu without a network |
| `main2.c` | `Project/software/nios_1/hello_world_small.c`, the program that is built |
| `HAL/`    | `Project/software/nios_1_bsp/HAL/src/` |
| `drivers/` | `Project/software/nios_1_bsp/drivers/src/` |
| `rtl/`    | `Project/nios/synthesis/submodules/` |

## 1. Inventory

### Menu (`main1.c`)
- *State*: `count` (the option), `pushbutton` (the last sample), the text on the
  display, the LED port.
- *Operations*: sample and wait 100 ms; UP and DOWN change `count` and redraw; SELECT
  shows the answer and enters a loop that writes the LEDs until BACK alone is sampled.
- *Hard*: the buttons move at any time while samples are 100 ms old; `count` and the
  display are tied together only by the order of calls; `count` wraps by two
  differently written tests; the selection loop reuses the variable of the outer loop.
- *Correct when*: the display always shows what `count` says; an answer goes away only
  by BACK, back to its own option; every option can be reached; a held BACK gets out.

### Networked program (`main2.c`)
- *State*: as above, plus where it is in a dialogue, one received byte, the console.
- *Operations*: the menu's; `writenUart`, `writenUartQuick`, `readUart`,
  `connectMQTT`, `publishMQTT`, and the start-up dialogue (AT, CWMODE, CWJAP).
- *Interacts with*: the UART registers (polled, no interrupts), `usleep`, the JTAG
  console (`alt_printf`), the display through `ALT_CI_LCD_0`.
- *Hard*: `readUart` waits for any `K`, without a timeout, and only three times at
  start-up and once per selection, while the ESP answers five more times; sleeps stand
  for the prompt and for the broker; each packet's length stands in the source twice;
  `alt_printf` blocks when the console is full; a reset does not reset the ESP.
- *Correct when*: each `K` is the answer to the command just written; every command
  is heard as a command and every packet byte as a packet byte; one selection is one
  publish; it stays the menu to its user; what is begun ends.

### Display path (`imprime`, `initialize_Lcd`, `rtl/LcdCustomInstruction.v`)
- *State*: the enable pin and the registered `rs` and `display`; the controller's
  memory, address and busy time.
- *Hard*: the controller latches on the *falling* edge of enable, and the custom
  instruction lowers enable first and changes the operands afterwards, so every call
  makes the controller take the call *before*.  There is no busy flag, waits stand one
  call early, and a processor reset resets neither the registers nor the controller.
- *Correct when*: the text asked for is shown, alone, when `imprime` returns; nothing
  but a repeated function set is given to the controller while it is busy.

### Custom instruction (processor, `altera_customins_slave_translator.sv`, `lcd`)
- *State*: the execute stage's start and enable, the translator's counter, the
  two-state machine `lcd`.
- *Hard*: the operands are registered one clock after the instruction was done; the
  counter is declared `[COUNTER_WIDTH-1:0]` with `COUNTER_WIDTH = $clog2(0) = 0`.
- *Correct when*: each call is one falling edge with the old operands and one rising
  edge with its own, and the processor is never left stalled.

### UART (`rtl/nios_uart_0.v`)
- *Transmitter*: a holding register and a shift register, TRDY and TOE.  *Hard*: the
  load pulse is two clocks long and loads twice; `writenUart` looks at TRDY once for a
  whole array.  *Correct when*: it is a two-place queue that sends every accepted
  character once, whole and in order, and the program's spacing never overruns it.
- *Receiver*: a resynchronised baud counter, a shift register, RRDY, ROE, FE, BRK.
  *Hard*: sampling is in the middle of a bit only because each edge restarts the
  counter; a character that is complete on the clock RXDATA is read loses against the
  read; a write to STATUS loses against nothing.  *Correct when*: one right character
  for each frame, after a damaged one or a break too, and STATUS tells each loss and
  error since it was written.

### usleep (`HAL/alt_busy_sleep.c`)
- *State*: the register it counts down, the big loops left.
- *Hard*: a product that could overflow, a counting loop that subtracts before it
  looks, inline assembly that changes an input operand, a calibration whose division
  truncates.
- *Correct when*: it ends, and is shorter than asked by that division and nothing else.

### JTAG UART driver (`drivers/altera_avalon_jtag_uart_*.c`, `rtl/nios_jtag.v`)
- *State*: two ring buffers with an index for each side, the copy of the interrupt
  enables, `timeout` and `host_inactive`; in the device two FIFOs, the pause flag, AC.
- *Operations*: the interrupt routine, the alarm every second, `read`, `write`,
  `close`, `ioctl`; the small driver's `read` and `write`, which only poll.
- *Hard*: bytes are copied in blocks computed from indices the routine is moving; the
  enables are one variable of both sides; a wait ends by data or by a timeout.
- *Correct when*: both directions are queues, no wake-up is lost, a blocking call
  comes back although the host is silent.

### UART driver (`drivers/altera_avalon_uart_*.c`)
- *State*: two ring buffers, the control register's copy; TXDATA, RXDATA, the errors
  and CTS in the device.
- *Operations*: the interrupt routine with its two halves, `read`, `write`, `close`;
  the small driver's `read` and `write`.
- *Hard*: one reading of STATUS decides both halves after it has been cleared; three
  interrupts are turned on and off in seven places; flow control stops the transmitter
  until a change of CTS.
- *Correct when*: as above, without a host that may be silent but with a line that does
  not wait.

### File descriptors (`HAL/alt_open.c`, `alt_close.c`, `alt_get_fd.c`, `alt_fd_lock.c`, ...)
- *State*: the list of descriptors, its highwater mark, one semaphore; the lists of
  devices and file systems.
- *Operations*: `open`, `close`, `stat`, `ioctl` (exclusive access), `fcntl`, the checks
  of `read`, `write`, `lseek`, `fstat`, `isatty`, and the redirection at startup.
- *Hard*: only two of the routines take the semaphore; a descriptor is released in two
  assignments and opened in three; `open` fails in four places, before and after it has
  got a descriptor.
- *Correct when*: a descriptor stays what it was opened for and its task's alone, none is
  left behind, a locked device gets no new descriptor.

These three are in the repository but not in the programs as built: `public.mk` sets
`ALT_USE_DIRECT_DRIVERS` and `ALT_USE_SMALL_DRIVERS`, and `system.h` has no system clock.
The small drivers are; the rest is what a change of the settings brings in.

### Not in the repository
The ESP8266 with its AT firmware, the MQTT broker, the serial line's far end, the
display controller, the JTAG host and the push buttons are external.  They are
modelled from what the source sends them and waits for.

### Not modelled
| part | why |
|------|-----|
| LED and button ports | a register and a multiplexer; their width and reset value are in `Menu` and `App` |
| interconnect `rtl/nios_mm_interconnect_0.v` | generated, one master; its wait cycles appear in `UartTx` and `UartRx` |
| Nios II/e core | generated; only the custom-instruction stage is modelled, in `LcdCi` |
| `alt_tick`, alarms, time of day, interrupt dispatch | no system clock and no registered routine in this design; the drivers' one alarm is in `JtagDrv`, interrupts are in the drivers' models |
| UART `ioctl` | built only with `ALTERA_AVALON_UART_USE_IOCTL`; sets the baud rate, which here is fixed |
| rest of the HAL, C library | start-up, profiling (`alt_gmon`), logging (`alt_log_printf`), flash and DMA interfaces: no state of their own, or no user in this design |

## 2. Modules

```
 Menu  <----refines---- App ----extends----> Esp8266
                         |  one byte written = one step: UartTx, UartRx
                         |  one text shown   = one step: Display
                         |  console          = bounded buffer: JtagDrv (small)
 LcdBus <---refines---- LcdCi        Display takes the bus protocol of LcdBus
 TxQueue <--refines---- UartTx
 Pipe <------refines--- JtagDrv, UartDrv     once for each direction
 BusySleep                           what usleep(n) waits
 Files                               descriptors above the drivers
```

| module | stands for | its actions |
|--------|-----------|-------------|
| `Menu` | `main1.c` | one per branch of `main`: `Sample`, `Up`, `Down`, `Select`, `Ignore`, `HoldSample`, `Light`, `Boot`; `Press` is the user |
| `App` | `main2.c` | the same branches; `TxByte`, `SleepOver`, `ReadByte`, `PrintByte`, `PutChar`, `ShowText`, `Return` run a routine; `Arrive`, `EspStep`, `Fetch`, `Reset`, `Press` are its surroundings |
| `Esp8266` | external | what the ESP and the broker do with a byte, and `EspFinish`, `BrokerClose`, `Drop` |
| `Display` | `initialize_Lcd`, `imprime`, `lcd`, controller | `Usleep`, `AltCi`, `Imprime`, `CpuReset`, `ResetInCall` |
| `LcdBus` | what one `ALT_CI_LCD_0` promises | abstract |
| `LcdCi` | execute stage, translator, `lcd` | one step is one clock edge of all three; `Reset` is asynchronous |
| `TxQueue` | what TXDATA and STATUS promise | abstract |
| `UartTx` | `nios_uart_0_tx` and its registers | one step is one clock: `Write` or `Tick` |
| `UartRx` | `nios_uart_0_rx`, the RXDATA read and STATUS write, a sender with jitter, damaged frames and breaks | one step is one clock: `Wait`, `Read` or `Clear` |
| `BusySleep` | `alt_busy_sleep` | a call, or one round of a loop |
| `Pipe` | what a driver promises in one direction | abstract: `Put`, `Take` of some bytes |
| `JtagDrv` | JTAG UART driver, fast and small, and the device | `Isr...` one loop round of the interrupt routine (`IsrReceiveLate`: a byte arrives while DATA is read), `Timeout` the alarm, `Write...`, `Read...`, `Close`, `SetTimeout`, `SmallWrite`, `SmallRead` the calls, `Host...` the host |
| `UartDrv` | UART driver, fast and small, and the device | `IsrStatus`, `IsrClear`, `Rxirq`, `Txirq...` the routine; `Write...`, `Read...`, `Close`, `Small...` the calls; `LineTakes`, `LineBrings`, `CtsChanges` the lines |
| `Files` | the list of descriptors and the calls on it | one step is one access to the list: `Open`, `Pend`, `alt_get_fd`, `SetFlags`, `alt_file_locked`, `DevOpen`, `alt_release_fd`, `alt_fd_lock`, ... |
| `FirstProofs` | theorems on the first program: `Menu`, and under its `imprime` `LcdCi` (a call) and `BusySleep` (the wait after it) | |
| `AppProofs`, `DisplayProofs`, `UartTxProofs`, `UartRxProofs`, `JtagDrvProofs`, `UartDrvProofs`, `FilesProofs` | theorems on the module of that name | |
| `MCFirst` | `Menu`, `LcdCi`, `BusySleep` and `Display` for TLC, side by side: one of them, `part`, moves | |
| `MCUart` | `UartTx` and `UartRx` likewise: one of them, `half`, moves | |
| `MCApp`, `MCFiles`, `MCJtagDrv`, `MCUartDrv` | instances for TLC | |

Definitions keep the names of the source (`imprime`, `connectMQTT`, `opcao1..5` as
`Opcao`, `do_load` for `do_load_shifter`, `shift_done`, `BigUs` for `INT_MAX/(...)`).  `LcdCi`,
`BusySleep`, `Display` and `UartRx` call their specifications `CiSpec`, `SleepSpec`,
`DisplaySpec` and `RxSpec` (`CiInit`, `SleepNext`, ...), because `FirstProofs`, `MCFirst`
and `MCUart` extend several modules; no variable is shared.
Operators whose comment calls them *a mutated form* are no part of any
specification: they are the slips each property was tried against.

### How the routines of `main2.c` are laid out
The routines have constant loop bounds and, but for `readUart`, no branches.  `App`
writes each as the sequence of things it does (`Boot`, `Selected[k]`, built from
`writenUart(x)`, `connectMQTT`, `publishMQTT(k)`), and one variable `at` walks along.
`readUart` waits at its element and is two actions, the read of RXDATA and the
`alt_printf` of what was read: bytes may arrive, and be overwritten, in between.

### What the abstractions rest on
- **A byte is the pair (array, index)** and the ESP's answers are bytes that are or are
  not a `K`, and of which answer.  Array lengths and announced lengths are the real ones.
- **Writing a byte and the ESP receiving it is one step of `App`.**  `usleep(1000)` follows
  each write and is 50,000 nominal clocks, a character takes `CharTime` = 10·435 + 4 = 4354:
  theorem `UartTxProofs!PacedWritesAreSafe`.  The real `usleep` lasts nine tenths of that
  (`BusySleep`), which leaves a factor of ten.
- **One received byte is held.**  `Arrive` overwrites it, as the receiver does
  (`UartRx`); with `Prompt` the polling loop is faster than the line (a byte takes
  87 µs) unless the console blocks.
- **`imprime` is one step of `Menu` and `App`.**  `Display` says that when it returns
  its text is on the glass: theorem `DisplayProofs!ImprimeShows`.
- **`alt_printf("Message sent")` is one character** of the console: it is not read
  back, only its ability to block matters.
- **Time.**  `Display` counts the least that can have passed, in microseconds: nine
  tenths of each `usleep`, as `BusySleep` says.  What the controller needs after power-up
  and after the first two function sets is what the comments of `initialize_Lcd` say
  (15 ms, 4.1 ms, 100 us); what it is given meanwhile is lost.  `App`
  has no clock: a sleep is over when the ESP is done (`Prompt`), or at any time.
- **A reset of the processor** leaves the display, `lcd` and the ESP as they are.
  `LcdCi`, `Display` and, in `app_adverse`, `App` allow it at any point; `app_online`
  only while the menu waits for a button.  In the middle of a dialogue it leaves the ESP
  in the middle of a line or packet, the ESP takes the new `AT` for the rest of it, and
  `readUart` may wait for ever.  Nothing in the repository promises otherwise, so that
  the start after such a reset ends is not a property; what still holds is.
- **The drivers' program runs only while no interrupt routine does**, one statement that
  touches shared state at a time; what it does with interrupts off is one step.  The
  device and the lines move at any time, inside the routine too, and a byte can arrive
  between the two clocks on which a read of the JTAG UART's DATA collects RVALID and
  RAVAIL (`rtl/nios_jtag.v:511`, 520).  Without an operating
  system the semaphores and events compile to nothing and a wait is a loop.
- **Which driver is linked shows in the calls there are** (`use`): a behaviour of
  `JtagDrv` or `UartDrv` makes either the fast or the small driver's calls.
- **What a driver's call returns is not modelled**, only what it moves and that it
  returns; the bytes are numbered so that a lost, doubled or displaced one shows.
- **Tasks in `Files`** interleave at every access to the list.  One task is the HAL
  without threads.  Names are sequences of components, so that a file system's name can
  begin a file's.
- The two synchronizer registers in front of the receiver only delay the line.
- `force-break` and `clk_en` of the UART are constant in this design.

## 3. Runs

All runs are exhaustive over their instance.  States are distinct states.

| run | cfg | asks | states |
|-----|-----|------|--------|
| `first` | `MCFirst.cfg` | The parts of the first program.  Does the menu show and light what `count` says, and do held buttons work, for all 16 levels of the port?  Do processor, translator and `lcd` implement `LcdBus`, clock by clock, with resets at any clock?  How short is a sleep, for every argument, and does it end?  Does the text get on the glass, alone, with two resets at any point? | 97,893 |
| `app_online` | `MCApp.cfg` | With a prompt, reliable ESP: does the dialogue keep in step, does everything end, is it the menu, with a reset? | 208,784 |
| `app_adverse` | `MCAppAdverse.cfg` | Nothing on time, nothing reliable, a reset anywhere: what is still true? | 2,634,588 |
| `uart` | `MCUart.cfg` | Is the transmitter a two-place queue with whole bits, whenever it is written, and never overrun at the program's spacing?  Is each frame one right character, with jitter, damage, reads and STATUS writes at any clock, and does STATUS tell the rest? | 445,250 |
| `files` | `MCFiles.cfg` | Do two tasks' descriptors stay theirs and come back? | 486,948 |
| `jtag` | `MCJtagDrv.cfg` | Is the JTAG UART driver a queue each way, always armed, and do its calls return? | 239,063 |
| `uart_drv` | `MCUartDrv.cfg` | The same of the UART driver, with errors, overruns and flow control | 456,933 |
| `app_sent`, `display_wait`, `files_lock`, `uart_cts`, `uart_damaged` | `MCAppSent.cfg`, `MCFirstWait.cfg`, `MCFilesLock.cfg`, `MCUartDrvCts.cfg`, `MCUartDrvDamaged.cfg` | The findings of section 5: each is violated, on the instance of the run above it belongs to (`MCAppSent` has its own) | - |

In `first` and `uart` parts that share no variable stand side by side in one instance.
A behaviour is one of a single part, so the states are those of the parts added up, and
each part has the fairness of its own specification.

### Properties
- `Menu`: `ScreenFollowsCount` (display and `count` agree between any two steps),
  `AnswerUntilBack` and `LitOnceAnswered` (what a step may never do), `HeldButtonsWork`
  (a held UP or DOWN goes through every option, a held BACK gets out).
- `Display`: `ShownOnReturn`, `OneTextAtATime`, `AskedIsShown`, and `OnlySetsAreLost`: of
  what the program writes the controller misses nothing but function sets, and it has
  taken two when `initialize_Lcd` is over.
- `LcdCi`: `OperandsStillThere`, `RefinesBus` (every step is a step or a stutter of
  `LcdBus`), `NeverStuck`.
- `App` online: `DialogueInStep` (every command is heard as one, every packet byte as
  one), `OkIsFresh`, `MessageSentIsTrue`, `MenuIsOffline`, `RunsEnd`, `RefinesMenu` (it
  implements `Menu` with its liveness).
- `App` adverse: `MenuSteps` (it still takes only steps of `Menu`, though it may stop
  for ever in `readUart`), `LateAtMostOne` (the broker gets nothing twice, nothing out of
  order, and a publish late by one selection at most, and only if the ESP was still at
  work when that selection began).  Both hold through resets; `MenuRestart` is what a
  reset is to the menu.
- `UartTx`: `RefinesQueue` (`TxQueue` with its liveness: every accepted character is
  sent), `BitsAreWhole`, `NeverOverrun`.  `UartRx`: `FramesAreReceived`,
  `StatusTellsAll` (each flag is set exactly if what it stands for has happened since
  STATUS was written).  `BusySleep`: `SleepsAsCalibrated` (a sleep is short
  by the cycles the truncated loops per microsecond drop, 5 of 50, and by nothing else;
  without big loops by exactly that), `SleepEnds`.
- `Files`: `HeldAsOpened` (a descriptor is one task's, for the device and access it was
  opened for), `NothingLeaks` (after every way out of a call).
- `JtagDrv`: `Armed` (bytes to send wait with their interrupt off only on the way to
  turning it on; receiving is off only while the buffer has a byte, so that a `read()`
  turns it on, or on the way there), `RefinesPipes` (each direction, program to host and
  back, implements `Pipe`), `CallsReturn`.
- `UartDrv`: `Armed` (without flow control for what is sent; receiving is off only
  without room), `CallsReturn`, and `BytesInOrder`, which is `Pipe` with exactly three
  steps excepted: a byte stored in a full buffer, a byte written over TXDATA with flow
  control, and a byte thrown away that came with an error, or that the small driver finds
  once it has seen one.  A damaged byte may also be read in its place: what becomes of it
  is the question of `uart_damaged`.

### Bounds, and why they are enough
- `KeyValues`: all sixteen in `first`.  In `app_online` the four single buttons: any other
  level does what BACK does outside the selection loop and what SELECT does inside it.
- `MaxLen` = 39 keeps every array at its real length (`app_online`).  The others
  cut arrays to two bytes: lengths are the business of the online run, there only the
  order of commands, packets and answers counts, and that an array can be cut short.
- `OneMishap`, the CONSTRAINT of `app_adverse`, keeps `count` to 0 and 1 and allows one
  lost connection or one reset: with two options a late publish can be told from the
  present one, and options are treated alike.  Its keys are BACK, SELECT and UP for the
  same reason.  No property of the run is one of liveness, so the constraint only cuts
  behaviours short.
- `ConsoleSize` = 2 or 1 for 64 characters: the console must be able to fill up.
- `MaxDrops`, `MaxResets`: one loss, one reset (two in `first`, so that one can come
  while the effects of the other are still there).
- `Texts`: a longer, a shorter and a one-character text; `Cells` = 5 leaves room after
  the longest.  What matters is that a shorter text follows a longer one.
- `Divisor`: the transmitter runs with 2 (the theorems hold for every divisor), the
  receiver with 9 and edges one clock early or late, the least divisor that allows it (the
  theorems hold for every divisor and jitter within `InTolerance`, section 4).
- `Values` = 64 for 2^32, with the 50 and 9 cycles of the design: requests need none, one or
  several big loops, exactly or with a rest.  `MaxLoops` only has to exceed every count.
- `Operands`: zero and three others, so that old, new and reset operands differ.
- `files`: two tasks, since every property is about a pair; five descriptors, the three
  streams and two more, so that both tasks hold one or one finds none; `Tuned` = 3 because
  `fcntl` treats descriptors alike.
- `jtag`: rings of three places (two can be filled: empty, partly full, full and gone
  round all happen), FIFOs of one and two, calls for one or two bytes, `Numbers` = 3.
  `INT_MAX` = 4 leaves timeouts of 1 and 2, one that never expires and the driver without
  an alarm.  `Unread` bounds what the host sends to a program that never reads.
- `uart_drv`: rings of four places (three can be filled), calls for none, one and four
  bytes, so that a blocking write waits at least once.  Once the receive buffer has been
  overfilled nothing more comes in.
- `uart`: four bytes (no edge at all, the longest run of ones, an edge at every bit,
  and `K`), each with a good or a bad stop bit; all zeros with a bad one is a break, which
  may last any time.
- History variables (`lasted`, `since`, `paced`, `taken`, `told`, `loops`, `chosen`,
  `before`, `said`, `held`, `asked`, `lost`, `damaged`, `txput`, `txgot`, ...) and `resets`,
  `drops` influence no other variable, except that the last two bound what they count.

### Fairness
- The processor runs: `WF(Cpu)` in `Menu` and `App`, `WF(Processor)` in `Display`; `WF` of
  the loops in `BusySleep`; `WF(Clock)` in `LcdCi`; `WF(Next)` in `UartTx`.  There is one
  thread, no interrupt and a free-running clock.
- `App` also assumes that a byte on the line arrives, that the ESP finishes what it
  works on and the broker closes a session it was told to close, and that the JTAG host
  fetches characters.  Nobody has to press a button, lose a connection or reset.
- `JtagDrv`: `WF` of the program, the interrupt routine and the alarm; the host owes
  nothing.  Where the host has to act for a call to return, the property says so.
- `UartDrv`: `WF` of the interrupt routine and of the transmitter, which sends what it
  has without the other end's help; `SF` of the program: the routine takes less than a
  byte takes on the line, so the program runs between two interrupts.
- Safety properties use none of this.  `Files` states no fairness.

### Deadlock
is checked in every run.

### Running
In this directory: `tlc -workers 2 -config MCFirst.cfg MCFirst`, and likewise for the other
runs (`MCFirstWait.cfg` with `MCFirst`, `MCAppAdverse.cfg` and `MCAppSent.cfg` with `MCApp`,
`MCFilesLock.cfg` with `MCFiles`, `MCUartDrvCts.cfg` and `MCUartDrvDamaged.cfg` with
`MCUartDrv`); `tlapm FirstProofs.tla` for a module of proofs.  A passing run takes between
half a minute and three, a violated one seconds; `AppProofs` takes several minutes to prove
from nothing.

## 4. Proofs

Each theorem holds for every value of the constants.  `[]P` stands for `Spec => []P`.

| theorem | says | rests on |
|---------|------|----------|
| `FirstProofs!TypeCorrect` | `[]TypeOK` of `Menu` | `IInv` |
| `FirstProofs!DisplayIsCount` | `[]ScreenFollowsCount` | `IInv` |
| `FirstProofs!AnswerStays` | `AnswerUntilBack` | `IInv`, `AnswerStep` |
| `FirstProofs!LedsNameSelection` | `LitOnceAnswered` | `IInv`, `AnswerStep` |
| `FirstProofs!CallTypeCorrect` | `[]CiTypeOK` of `LcdCi` | `Calling` |
| `FirstProofs!OperandsOutliveCall` | `[]OperandsStillThere` | `Calling` |
| `FirstProofs!ImplementsBus` | `RefinesBus` | `Calling` |
| `FirstProofs!SleepLasts` | `[]SleepsAsCalibrated` | `Sleeping` |
| `AppProofs!TypeCorrect` | `[]TypeOK` | `TypeInv` |
| `AppProofs!MenuStaysTheMenu` | `MenuSteps` | `TypeInv`, `MenuInv` |
| `AppProofs!LateAtMostOneAlways` | `[]LateAtMostOne` | `TypeInv`, `LateInv` |
| `AppProofs!DialogueInStepAlways` | `[]DialogueInStep`, if `Online` | `TypeInv`, `LateInv`, `Talk` |
| `AppProofs!OkIsFreshAlways` | `[]OkIsFresh`, if `Online` | the same |
| `AppProofs!MessageSentIsTrueAlways` | `[]MessageSentIsTrue`, if `Online` | the same |
| `AppProofs!MenuIsOfflineAlways` | `[]MenuIsOffline`, if `Online` | the same |
| `DisplayProofs!TypeCorrect` | `[]DisplayTypeOK` | itself |
| `DisplayProofs!OnlySetsAreLostEver` | `[]OnlySetsAreLost` | `DisplayTypeOK`, `Timed` |
| `DisplayProofs!OneTextAlways` | `[]OneTextAtATime` | `Timed`, `Glass` |
| `DisplayProofs!ImprimeShows` | `[]ShownOnReturn` | `Timed`, `Glass` |
| `UartTxProofs!TypeCorrect` | `[]TypeOK` | itself |
| `UartTxProofs!PacedWritesAreSafe` | `[]NeverOverrun` | `TypeOK`, `Paced` |
| `UartTxProofs!ImplementsQueue` | the steps of `RefinesQueue` | `TypeOK`, `Handed` |
| `UartTxProofs!NoBitIsCut` | `BitsAreWhole` | `TypeOK`, `Framed` |
| `UartRxProofs!EachFrameOnce` | `[]FramesAreReceived`, if `InTolerance` | `Typed`, `Synchronous` |
| `UartRxProofs!StatusIsTrue` | `[]StatusTellsAll`, if `InTolerance` | `Typed`, `Synchronous` |
| `JtagDrvProofs!TypeCorrect` | `[]TypeOK` | `IInv` = `TypeOK`, `Fits` |
| `JtagDrvProofs!NoLostWakeUp` | `[]Armed` | `IInv`, `Kept` |
| `JtagDrvProofs!ImplementsPipes` | `RefinesPipes` | `IInv`, `Piped` |
| `UartDrvProofs!TypeCorrect` | `[]TypeOK` | `IInv` = `TypeOK`, `Sound` |
| `UartDrvProofs!NoLostWakeUp` | `[]Armed` | `IInv`, `Kept` |
| `UartDrvProofs!BytesKeepOrder` | `BytesInOrder` | `IInv`, `Piped` |
| `FilesProofs!HeldAsOpenedAlways` | `[]HeldAsOpened` | `IInv` |
| `FilesProofs!NothingLeaksEver` | `[]NothingLeaks` | `IInv` |
| `FilesProofs!LockLeavesOneAlways` | `[]LockLeavesOne`: how far the lock falls short of `LockIsExclusive` | `IInv` |

### Assumptions
The only ones on the constants are those the modules name:
- `KeyAssumption`, `AppAssumption`, `EspAssumption`: the button port is four bits wide, the
  console holds at least one character, arrays have at least one byte, the rest is types.
- `DisplayAssumption`: there is a text, each has at least one character and fits into the
  display, and a blank cell is no character of a text.
- `CiAssumption`: zero is a pair of operands and `None` is not.
- `TxAssumption`: the divisor is positive and `None` is no character.
- `RxAssumption`: bytes are of eight bits, the divisor is positive and no edge is off by
  more than half a bit.
- `SleepAssumption`: a register has an even number of values, a round takes at least one
  cycle and a microsecond between one round and `INT_MAX`, arguments fit a register, and the
  history variable counts far enough.
- `JtagAssumption`, `UartAssumption`: the buffers have at least two places, `None` is no
  byte, a program uses the calls of one driver only; for the JTAG driver the thresholds are
  below the depths of the FIFOs and the default timeout is below `INT_MAX - 1`.
- `FilesAssumption`, `RegistryAssumption`: more descriptors than the three streams, and
  nothing registered is a null pointer; a file system under a device's name is undefined
  behaviour in `HAL/alt_fs_reg.c`, so names differ.

Four theorems of `AppProofs` have the hypothesis

```
Online == Prompt /\ Reliable /\ MaxDrops = 0 /\ ~ResetAnywhere
```

which is what `main2.c` relies on without a check: its sleeps outlast the ESP, access point
and broker are there, no connection is lost, and the processor is reset only in the menu.
Buttons, array lengths, console and the number of resets remain free.  `app_online` is an
instance.  The hypothesis is needed: `app_sent` breaks `MessageSentIsTrue` with one lost
connection, and `app_adverse` is what there is without any of it.

The two of `UartRxProofs` have the hypothesis

```
InTolerance == 2 * Jitter + 3 <= Divisor - Half        Half == Divisor \div 2
```

Counted from when the stop bit is due, its character is made on clock `Half + 3 + Jitter`
at the latest, and the frame may be over after clock `Divisor - Jitter`.  At divisor 434
that allows 107 clocks, a quarter of a bit (lemma `Design`).  It is sharp: `uart`,
with divisor 9 and one clock, meets it exactly, and with divisor 8 and one clock, or 12 and
two, TLC finds `FramesAreReceived` violated.  The simulation's divisor of 4 is outside it
even without jitter: there the character is made one clock after its frame is over.

### Arguments
- *Menu.*  `ScreenFollowsCount` speaks of four of the five places `main` can be in; the
  inductive invariant adds the type (so `count` indexes the texts) and the blank display
  before the first call of `onMessage`.  The action properties follow because the only
  step that takes an answer off the display is `Light`.
- *Networked program.*  `Boot` and `Selected[k]` are concatenations of operations.  A first
  part computes where in them each line, packet and `readUart` begins (`BootIs`,
  `SelectedIs`), for every length of the arrays; after it they are not expanded again.
  `MenuSteps` needs the text on the display at each of these places (`MenuInv`).
  `LateAtMostOne` speaks of the broker only; `LateInv` follows the publish from the moment
  its first byte is in the ESP.  The crucial case is a late one: while the ESP still sends
  it, it answers nothing, no `K` is on the way (`NoK`), so the program cannot have got past
  the `readUart` that precedes the next publish.  `Talk` gives the state of the ESP (mode,
  line, bytes missing, job, connection, session, answer on its way) for every place of a
  dialogue; it is split into the parts a dialogue consists of (a plain line, an announced
  packet, connect, publish, disconnect), with one lemma per part that a step stays in it or
  begins the next.  A `K` that is read is the right one because the part it is in says whose
  answer is on its way (`AnswerTo`), and the receiver's register holds none older
  (`FreshK`).
- *Display.*  The controller takes a call at the next one, so whether a wait is long enough
  depends on the call before the last: `Timed` relates the time that has passed to what the
  controller is busy with, how many function sets it has taken and what the routine still
  has ahead (`InitializeWaits` gives what the sleeps really last).  A reset in the middle of
  the four function sets starts them again, so the count only gets further.  For the glass,
  `Behind` says what the registers hold at each place of a routine, `Continued` that a
  character in them is the next of the text on the glass (after a reset that text may be of
  a routine that no longer runs), `Written` what an `imprime` has done so far.
- *Custom instruction.*  `OperandsStillThere` speaks of write-back only.  `Calling` adds what
  leads there: in the execute stage the operand registers and the register file's outputs
  agree; after the start cycle `lcd` has lowered enable and waits; outside execute and
  write-back nothing is issued.  The refinement maps the registers to the phases of
  `LcdBus` and is a case split on the stage.
- *Transmitter.*  `NeverOverrun` says nothing of how far the last character has got.
  `Paced` does: as long as writes have been `CharTime` apart, the transmitter is resting,
  or the clocks since the write and the clocks still needed sum to `CharTime + 1`.
  `BitTimes` supplies the little multiplication by the number of bits left.  For the queue,
  `Handed` says what each of the two clocks of `do_load_shifter` finds: TXDATA, and the
  shift register it fills, agree unless the character was replaced in between.  `Framed`
  ties the age of the bit on the line to the counter and the bits left.
- *Receiver.*  `FramesAreReceived` speaks of the clock on which a character is complete and
  not of how the receiver got there.  `Synchronous` says, for each of the seven phases of a
  frame, what the shift register holds of it (`Holds`), and where the sample is: before it,
  what the counter still counts and the age of the bit make up the middle of the bit, give
  or take the jitter of the edge that set the counter (`Ahead`); on it, the age is that
  middle (`Due`); after it, the counter aims at the middle of the next bit (`Past`).  An
  edge shows only on the first clock of a bit, so setting the counter keeps the sum within
  the same limits, however many bits ago the last edge was.  There is one lemma per phase
  (`FromBetween` to `FromMade`); only sums appear, no product.  `StatusTellsAll` is then
  inductive: when a character is complete the register holds its whole frame (`NewChar`),
  so the flags are raised for what the frame was, and an overrun is one whether or not the
  character before is being read (`GoneIs`).
- *usleep.*  `SleepsAsCalibrated` looks at a sleep when it is over.  `Sleeping` relates, at
  every round, the rounds made, those the running loop still makes (`ToGo`, the whole width
  of the register if it is zero) and the microseconds no longer in `us`.  The product of
  rest and rounds fits because what is left is less than a big loop, and that is no longer
  than `INT_MAX` (`Sizes`).  Rounds become cycles only at the end, by `LoopsPerUs` times
  `CyclesPerLoop` being `CyclesPerUs` less the remainder.
- *JTAG UART driver.*  An index can leave its buffer if a block is copied past the end:
  lemma `Rounded` says what `Space` and `Present` allow.  `TypeOK` is not inductive, since
  the count a call has left could go below zero: `Fits` ties it to the block being copied.
  `Armed` speaks of the moments when the interrupt routine is not running; `Kept` is the
  same without that condition.  For the transmitter that holds because the routine turns its
  interrupt off only when there is nothing to send, and the program has its statement still
  ahead.  For the receiver it needs `Asked`: the device asks for the routine, and the
  routine gets as far as reading DATA with an empty buffer, only with a byte in the FIFO.
  So the byte that arrives too late for RVALID (`IsrReceiveLate`) finds a byte in the buffer
  already, and the `read()` that takes it turns the interrupt on again.  For the pipes,
  lemmas `RingPut`, `RingTake` and `RingStays` say what an index, a store and a wrap do to
  the sequence a ring stands for; `Copying` says that what a call has copied already lies
  where the index will move, and `Roomy` that the routine sends no more than the FIFO takes.
- *UART driver.*  `Sound` adds which calls go with which driver, that RXDATA holds a byte
  from the reading of STATUS to that of RXDATA, and that a count is taken down only while
  positive.  `Kept` is stronger than `Armed`: with bytes to send TRDY may be off only with
  flow control, and then DCTS is on (which is not enough, see `uart_cts`).  For the order of
  bytes, `Roomy` says that the room a write has seen is still there when it stores its byte,
  and `Unsent` when `txirq` may find TXDATA occupied.
- *File descriptors.*  A task is responsible for a descriptor before `open` returns it and
  after `close` has begun (`Busy`); `Owned` says that all these are different.  `Pending`
  carries what was asked for through the steps of `open`.  For the lock, `Marked` says that
  nothing in use but the streams is above the highwater mark, `Searched` what the search of
  `alt_fd_lock` has passed, and `Leaves` that a second descriptor of a locked device is on
  its way out.

### Only model-checked
- Every liveness property (`HeldButtonsWork`, `AskedIsShown`, `NeverStuck`, `RunsEnd`,
  `SleepEnds`, both `CallsReturn`, the fairness part of `RefinesMenu` and `RefinesQueue`):
  they need fairness and ENABLED, which this prover does not handle.
- Nothing else: every invariant and every action property of the passing runs is a theorem.
  Those with a hypothesis are only model-checked outside it, on the instances of section 3.
  The five properties of section 5 are refuted, each on an instance.

## 5. Findings

Each is a run that states what a comment or the program says, and that TLC violates.

- `app_sent`, `MessageSentIsTrue`: `main2.c:333` prints "Message sent" after every
  selection.  No answer to a connect or publish is ever read, so one lost connection
  makes the message untrue.  The same property holds in `app_online`.
- `display_wait`, `NothingLost`: `main2.c:159` asks for more than 4.1 ms after the first
  function set.  The program waits that long between two *calls*, but the controller takes
  each call's operands at the next one, so it is given the second function set about 90
  microseconds after the first, and the fourth too early as well.  They are all the same,
  which is why it does no harm: `OnlySetsAreLost` and `ShownOnReturn` hold.
- `files_lock`, `LockIsExclusive`: `alt_fd_lock` grants a lock only if no other descriptor
  refers to the device, says its comment (`HAL/alt_fd_lock.c:43`).  The search ends before
  the highest descriptor ever allocated (line 61), so that one may stay beside the lock;
  no second one can (theorem `LockLeavesOneAlways`).
- `uart_cts`, `CtsWakes`: the comment at `..._uart_init.c:255` says that reading the status
  again before throttling avoids a deadlock.  It does only while TRDY is on.  If TRDY is off
  already, CTS rises and falls, and rises again between the reading of STATUS and its
  clearing, then CTS is high, nothing is pending, and the bytes wait until it changes again.
- `uart_damaged`, `DamagedIsDiscarded`: `..._uart_init.c:157` says of a byte with an error
  that it is discarded, but RXDATA is not read: RRDY stays set, the error has been cleared,
  and the routine's next round stores the byte as a good one.

### Observed while modelling
No run is kept for these; the models behave as described.

- `HAL/alt_busy_sleep.c` divides 50 by 9 in integers for the loops of a microsecond (lines
  75, 112 and 129): they take 45 cycles, so every sleep of the program is 10 % short.
- `HAL/alt_busy_sleep.c:35` gives the loop the function is equivalent to.  For a whole
  number of big loops the rest is zero, and the loop for the rest (line 112) counts zero
  down through all values of the register.  No call of the program is that long.
- `do_load_shifter` is up for two clocks and loads twice, so a write between the two loads
  replaces the character; `RefinesQueue` shows that it then counts as one that waited, and
  is flagged as an overrun.
- A write to STATUS wins over an overrun or error on the same clock
  (`rtl/nios_uart_0.v:474`, 486, 498): that one is never told.  The drivers write STATUS
  after reading it, so what is raised between the two is not told either.
- JTAG `write()` that has moved nothing returns `-EIO`, "Host not connected", for any
  `host_inactive` but zero (`drivers/altera_avalon_jtag_uart_write.c:187`, 214), also when
  the wait ended because the host took bytes.
- The small UART `read()` clears the errors after it has read STATUS: of a damaged byte that
  comes in between nothing is left to tell, and a good one that runs over a damaged one is
  thrown away.
- UART `read()` turns RRDY on without a look at the room (`..._uart_read.c:227`), and the
  interrupt routine stores a byte whenever STATUS shows one, also when the interrupt was
  for the transmitter (`..._uart_init.c:131`).  Either way a byte can be stored in a full
  buffer, which then counts as empty.  The comment at line 189 ("Interrupts will be
  re-enabled when data is removed") leaves both out.
- With flow control a change of CTS calls `txirq` with a STATUS that may not show TRDY
  (`..._uart_init.c:137`), and TXDATA is written over.  `BytesInOrder` allows that step.
- `sp->tx_start = (++sp->tx_start) & MASK` (`..._uart_init.c:239`) assigns twice without a
  sequence point; the model takes the outcome that is meant.
- The small UART `write()` of no byte blocks for 2^32 of them: it counts down first.
- `alt_fd_lock` says that `close()` ends the lock (`HAL/alt_fd_lock.c:47`), but
  `alt_release_fd` leaves descriptors 0 to 2 as they are.
- RVALID of the JTAG UART is registered on the clock of the read and RAVAIL counts the
  FIFO a clock later (`rtl/nios_jtag.v:511`, 520).  A byte that arrives in between is
  available but not valid; the interrupt routine takes that for a full buffer and turns
  receiving off with room in it, against its comment ("then the buffer is full",
  `drivers/altera_avalon_jtag_uart_init.c:158`).  A later `read()` of the bytes that are
  there turns it on again.
- A call on a descriptor that is not open goes through a null pointer: only the number is
  checked.  `Files` therefore has calls on open descriptors only.

## 6. Plan

Done: the inventory, all modules above, their runs, and the proofs: every safety invariant
and action property the runs check is a theorem.

Next, in this order:
1. *Recovery* in `App`: from which states a start after a reset inside a dialogue ends.
2. *Ticks and alarms* (`HAL/alt_tick.c`, `alt_alarm_start.c`): the rollover flag against a
   count of ticks that wraps, and callbacks that start and stop alarms.
3. *Composition* of `UartTx` and `UartRx` over one line, in place of the sender with jitter:
   `BitsAreWhole` makes it a sender with none.
