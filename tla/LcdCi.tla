-------------------------------- MODULE LcdCi -------------------------------
(***************************************************************************)
(* One call of ALT_CI_LCD_0, clock by clock: the execute stage of the      *)
(* Nios II/e that issues a multicycle custom instruction, the translator   *)
(* that answers it with a done after a fixed number of cycles, and         *)
(* LcdCustomInstruction.v, the two-state machine behind it.                *)
(*                                                                         *)
(* The three only fit together by their timing.  lcd.v registers its       *)
(* operands on the first clock AFTER clk_en has gone down, when the        *)
(* instruction has left the execute stage; the operand registers are       *)
(* loaded on every clock, so they still hold the right values only because *)
(* they lag the register file by one cycle.  The done comes from a counter *)
(* declared [COUNTER_WIDTH-1:0] with COUNTER_WIDTH = $clog2(0) = 0, which  *)
(* makes it two bits wide, and loaded with NUM_FIXED_CYCLES - 2 = -2.      *)
(***************************************************************************)
EXTENDS Integers

CONSTANTS
  Operands,   \* values of the pair (dataa, datab)
  Zero,       \* the pair of zeros, the operand registers' reset value
  None        \* not a pair: see the refinement mapping

ASSUME CiAssumption == Zero \in Operands /\ None \notin Operands

VARIABLES
  stage,    \* where the custom instruction is: "R", "E", "W", or "other"
            \* while the processor executes anything else
  src,      \* R_src1, R_src2: what the register file gives out
  E_src,    \* E_src1, E_src2: the operand registers, dataa and datab
  start,    \* E_ci_multi_start
  clk_en,   \* E_ci_multi_clk_en
  running,  \* translator: counting
  tr_count, \* translator: the two-bit down-counter
  state,    \* lcd: the operands are still to be registered
  en,       \* lcd: the enable pin
  port      \* lcd: the rs and display pins

cpuVars == <<stage, src, E_src, start, clk_en>>
trVars  == <<running, tr_count>>
lcdVars == <<state, en, port>>
ciVars  == <<stage, src, E_src, start, clk_en, running, tr_count, state, en, port>>

ReloadUnsized == 0 - 2      \* a mutated form: no width

Reload == (0 - 2) % 4       \* NUM_FIXED_CYCLES - 2 in two bits

gen_done == tr_count = 0       \* E_ci_multi_done, whether running or not

CiInit ==
  /\ stage = "other"
  /\ src \in Operands
  /\ E_src = Zero
  /\ start = FALSE
  /\ clk_en = FALSE
  /\ running = FALSE
  /\ tr_count = Reload
  /\ state = FALSE
  /\ en = 0
  /\ port = Zero
-----------------------------------------------------------------------------
(* The clock edge of each of the three parts.                              *)

\* Other instructions: the register file's outputs are anything.
Other ==
  /\ stage \in {"other", "W"}
  /\ stage' = "other"
  /\ src' \in Operands
  /\ start' = FALSE
  /\ clk_en' = FALSE

\* A custom instruction has been decoded: its operands are read.
Read ==
  /\ stage = "other"
  /\ stage' = "R"
  /\ src' \in Operands
  /\ start' = FALSE
  /\ clk_en' = FALSE

\* It enters the execute stage.
Enter ==
  /\ stage = "R"
  /\ stage' = "E"
  /\ start' = TRUE
  /\ clk_en' = TRUE
  /\ UNCHANGED src

\* A mutated form: clk_en is kept up one cycle into write-back.
ExecuteLateDrop ==
  /\ stage = "E"
  /\ stage' = IF gen_done THEN "W" ELSE "E"
  /\ start' = FALSE
  /\ clk_en' = clk_en
  /\ UNCHANGED src

\* It is stalled there until done.
Execute ==
  /\ stage = "E"
  /\ stage' = IF gen_done THEN "W" ELSE "E"
  /\ start' = FALSE
  /\ clk_en' = (clk_en /\ ~gen_done)
  /\ UNCHANGED src

CpuEdge == (Other \/ Read \/ Enter \/ Execute) /\ E_src' = src

\* A mutated form: the counter only moves on the start cycle.
TranslatorStartOnly ==
  IF clk_en
  THEN /\ running' = ((running \/ start) /\ ~gen_done)
       /\ tr_count' = IF gen_done THEN Reload
                      ELSE IF start THEN (tr_count - 1) % 4 ELSE tr_count
  ELSE UNCHANGED trVars

TranslatorEdge ==
  IF clk_en
  THEN /\ running' = ((running \/ start) /\ ~gen_done)
       /\ tr_count' = IF gen_done THEN Reload
                      ELSE IF running THEN (tr_count - 1) % 4 ELSE tr_count
  ELSE UNCHANGED trVars

\* A mutated form: the operands are registered while clk_en is up.
LcdEdgeEager ==
  \/ clk_en /\ ~state /\ en' = 0 /\ state' = TRUE /\ UNCHANGED port
  \/ clk_en /\ state /\ en' = 1 /\ port' = E_src /\ state' = FALSE
  \/ ~clk_en /\ UNCHANGED lcdVars

LcdEdge ==
  \/ /\ clk_en
     /\ en' = 0
     /\ state' = TRUE
     /\ UNCHANGED port
  \/ /\ ~clk_en /\ state
     /\ en' = 1
     /\ port' = E_src
     /\ state' = FALSE
  \/ /\ ~clk_en /\ ~state
     /\ UNCHANGED lcdVars

Clock == CpuEdge /\ TranslatorEdge /\ LcdEdge

\* The reset is asynchronous and reaches the processor and the translator, not lcd.
Reset ==
  /\ stage' = "other"
  /\ src' \in Operands
  /\ E_src' = Zero
  /\ start' = FALSE
  /\ clk_en' = FALSE
  /\ running' = FALSE
  /\ tr_count' = Reload
  /\ UNCHANGED lcdVars

CiNext == Clock \/ Reset
CiSpec == CiInit /\ [][CiNext]_ciVars /\ WF_ciVars(Clock)
-----------------------------------------------------------------------------
(* Every register has a value of its width.                                 *)
CiTypeOK ==
  /\ stage \in {"other", "R", "E", "W"}
  /\ src \in Operands
  /\ E_src \in Operands
  /\ {start, clk_en, running, state} \subseteq BOOLEAN
  /\ tr_count \in 0..3
  /\ en \in {0, 1}
  /\ port \in Operands

\* The state of a call, and the operands it will leave on the pins.
Phase == IF state THEN "low" ELSE IF clk_en THEN "issued" ELSE "idle"

Bus == INSTANCE LcdBus WITH phase <- Phase,
                            op <- IF Phase = "idle" THEN None ELSE E_src

(* The three parts together do what LcdBus promises: each call lowers en    *)
(* once and raises it once, with the operands it was issued with although   *)
(* they are registered after the instruction is done with.                  *)
RefinesBus == Bus!Init /\ [][Bus!Next]_(Bus!busVars)

(* An instruction that has entered the execute stage is done: the counter   *)
(* reaches zero from whatever the previous call, or a reset, left in it.    *)
NeverStuck == stage = "E" ~> stage = "other"

(* When the instruction is written back, en is low and only the operands    *)
(* are still to be registered, and those are still the instruction's: the   *)
(* register file has not been written yet.                                  *)
OperandsStillThere == stage = "W" => state /\ ~clk_en /\ en = 0 /\ E_src = src
=============================================================================
