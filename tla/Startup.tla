------------------------------ MODULE Startup ------------------------------
(***************************************************************************)
(* The bring-up of the interface, once, at start-up: HAL_ETH_Init, the      *)
(* reset and negotiation of the PHY with their delays, the check of the     *)
(* link, and Netif_Config; and the delay loop over SysTick that they wait   *)
(* in.  Both builds have the same code.  Nothing of it can be interrupted   *)
(* by another part of the program that shares its state; what changes by    *)
(* itself is the PHY and the counter.                                       *)
(*                                                                          *)
(* The HAL tick stands still meanwhile: in the FreeRTOS build a critical    *)
(* section masks SysTick, in the bare-metal build its handler does not      *)
(* count the tick.  So no timeout of the HAL ever expires here.             *)
(***************************************************************************)
EXTENDS Integers

CONSTANTS
    Load,        \* SysTick->LOAD
    TicksPerMs,  \* 1000 * g_fac_us, the ticks counted for a millisecond
    MaxGap,      \* the most ticks between two looks at the counter; more than
                 \* one period when an interrupt comes in between
    ResetMs,     \* PHY_RESET_DELAY (15)
    NegMs,       \* the delay before the negotiation is polled (0xFFF)
    ReadTo,      \* PHY_READ_TO (0xFFFF)
    Speed        \* the four modes the PHY can indicate

ASSUME StartupAssumption ==
    /\ Load \in Nat \ {0} /\ TicksPerMs \in Nat \ {0} /\ MaxGap \in Nat
    /\ ResetMs \in Nat \ {0} /\ NegMs \in Nat \ {0} /\ ReadTo \in Nat \ {0}
    /\ "none" \notin Speed

VARIABLES
    pc,        \* where start-up is
    val,       \* SysTick->VAL as the delay loop read it last (told)
    tcnt,      \* the ticks this call of delay_us has counted
    left,      \* milliseconds that delay_ms still has to wait for
    owed,      \* history: ticks that must still pass in this delay
    clock,     \* the PHY supplies the reference clock
    phy,       \* the mode the PHY has negotiated, or "none"
    polls,     \* TIME_Out
    mac,       \* the speed and duplex mode of MACConfig
    started,   \* HAL_ETH_Start_IT has started the MAC and the DMA
    up, link,  \* NETIF_FLAG_UP, NETIF_FLAG_LINK_UP
    announced, \* history: gratuitous ARPs, counted to 2
    moved      \* history: the PHY has changed since it was first polled

wait == <<val, tcnt, left, owed>>
netif == <<up, link, announced>>
vars == <<pc, wait, clock, phy, polls, mac, started, netif, moved>>

Waiting == {"reset_wait", "neg_wait"}
PcLabels == Waiting \cup {"hal_init", "reset", "autoneg", "poll", "check", "start",
                          "set_up", "set_link", "config", "running"}

Init == /\ pc = "hal_init" /\ clock \in BOOLEAN
        /\ val = 0 /\ tcnt = 0 /\ left = 0 /\ owed = 0
        /\ phy \in Speed \cup {"none"} /\ polls = 0 /\ mac = "none"
        /\ started = FALSE /\ up = FALSE /\ link = FALSE
        /\ announced = 0 /\ moved = FALSE

-----------------------------------------------------------------------------
(* The delay.                                                               *)

(* HAL_Delay and delay_ms: at most 10 ms in one call of delay_us.           *)
Chunk == IF left >= 10 THEN 10 ELSE left

StartDelay(ms) == /\ left' = ms /\ tcnt' = 0
                  /\ owed' = ms * TicksPerMs
                  /\ val' \in 0..Load

(* Mutant of Elapsed: the counter counts up.                                *)
ElapsedUpwards(told, tnow) == IF tnow >= told THEN tnow - told ELSE Load - told + tnow

(* delay_us looks at the counter, which counts down; a wrap is one tick     *)
(* short, and more than one is not seen.                                    *)
Elapsed(told, tnow) == IF tnow <= told THEN told - tnow ELSE Load - tnow + told

Look(d) ==
    /\ pc \in Waiting
    /\ val' = (val - d) % (Load + 1)
    /\ owed' = IF d < owed THEN owed - d ELSE 0
    /\ LET counted == tcnt + Elapsed(val, val')
       IN  IF counted >= Chunk * TicksPerMs
           THEN /\ tcnt' = 0 /\ left' = left - Chunk
                /\ pc' = IF left' > 0 THEN pc
                         ELSE IF pc = "reset_wait" THEN "autoneg" ELSE "poll"
           ELSE tcnt' = counted /\ UNCHANGED <<left, pc>>
    /\ moved' = (moved /\ pc' # "poll")
    /\ UNCHANGED <<clock, phy, polls, mac, started, netif>>

-----------------------------------------------------------------------------
(* HAL_ETH_Init waits for its reset to end, which takes the clock of the    *)
(* PHY.                                                                     *)
HalInit == /\ pc = "hal_init" /\ clock /\ pc' = "reset"
           /\ UNCHANGED <<wait, clock, phy, polls, mac, started, netif, moved>>

(* LAN8720_Init: the PHY is reset and loses what it had negotiated ...      *)
PhyReset == /\ pc = "reset" /\ phy' = "none" /\ pc' = "reset_wait"
            /\ StartDelay(ResetMs)
            /\ UNCHANGED <<clock, polls, mac, started, netif, moved>>

(* ... and told to negotiate.                                               *)
PhyNegotiate == /\ pc = "autoneg" /\ phy' = "none" /\ pc' = "neg_wait"
                /\ StartDelay(NegMs)
                /\ UNCHANGED <<clock, polls, mac, started, netif, moved>>

(* A register that is busy ends LAN8720_Init with an error.                 *)
PhyFails == /\ pc \in {"reset", "autoneg"} /\ pc' = "config"
            /\ UNCHANGED <<wait, clock, phy, polls, mac, started, netif, moved>>

(* Mutant of Poll: the reads are not counted.                               *)
PollUncounted ==
    /\ pc = "poll"
    /\ pc' = IF phy # "none" THEN "check" ELSE "poll"
    /\ UNCHANGED <<wait, clock, phy, polls, mac, started, netif, moved>>

(* The end of the negotiation is polled; the number of reads is tested      *)
(* before what was read.                                                    *)
Poll == /\ pc = "poll"
        /\ polls' = polls + 1
        /\ pc' = CASE polls' > ReadTo -> "config"
                   [] polls' <= ReadTo /\ phy # "none" -> "check"
                   [] OTHER -> "poll"
        /\ UNCHANGED <<wait, clock, phy, mac, started, netif, moved>>

(* Mutant of CheckLink: the mode of the MAC is not set.                     *)
CheckLinkModeUnset ==
    /\ pc = "check"
    /\ pc' = IF phy \in Speed THEN "start" ELSE "config"
    /\ UNCHANGED <<wait, clock, phy, polls, mac, started, netif, moved>>

(* ethernet_link_check_state reads the mode: without one nothing is done.   *)
CheckLink == /\ pc = "check"
             /\ IF phy \in Speed THEN mac' = phy /\ pc' = "start"
                                 ELSE pc' = "config" /\ UNCHANGED mac
             /\ UNCHANGED <<wait, clock, phy, polls, started, netif, moved>>

StartMac == /\ pc = "start" /\ started' = TRUE /\ pc' = "set_up"
            /\ UNCHANGED <<wait, clock, phy, polls, mac, netif, moved>>

(* netif_issue_reports: with both flags set the address is announced.       *)
Report == announced' = IF up' /\ link' /\ announced < 2 THEN announced + 1 ELSE announced

(* netif_set_up and netif_set_link_up do nothing the second time.           *)
NetifSetUp == up' = TRUE /\ UNCHANGED link
              /\ IF up THEN UNCHANGED announced ELSE Report

SetUp == /\ pc = "set_up" /\ NetifSetUp /\ pc' = "set_link"
         /\ UNCHANGED <<wait, clock, phy, polls, mac, started, moved>>

SetLinkUp == /\ pc = "set_link" /\ link' = TRUE /\ UNCHANGED up /\ Report
             /\ pc' = "config"
             /\ UNCHANGED <<wait, clock, phy, polls, mac, started, moved>>

(* Netif_Config: the interface is up if its link is.                        *)
Configure == /\ pc = "config" /\ pc' = "running"
             /\ IF link THEN NetifSetUp
                        ELSE up' = FALSE /\ UNCHANGED <<link, announced>>
             /\ UNCHANGED <<wait, clock, phy, polls, mac, started, moved>>

(* The PHY ends a negotiation, or the cable is pulled.                      *)
PhyChanges == /\ phy' \in Speed \cup {"none"} /\ phy' # phy
              /\ phy = "none" \/ phy' = "none"
              /\ moved' = TRUE
              /\ UNCHANGED <<pc, wait, clock, polls, mac, started, netif>>

-----------------------------------------------------------------------------
Step == \/ HalInit \/ PhyReset \/ PhyNegotiate \/ PhyFails \/ Poll \/ CheckLink
        \/ StartMac \/ SetUp \/ SetLinkUp \/ Configure

Next == Step \/ PhyChanges \/ \E d \in 0..MaxGap : Look(d)

Spec == Init /\ [][Next]_vars

(* The program runs, and the loop looks at the counter often enough to see  *)
(* it move again and again.                                                 *)
Progress == \E d \in 0..MaxGap : Look(d) /\ <<left, tcnt>>' # <<left, tcnt>>

FairSpec == Spec /\ WF_vars(Step) /\ WF_vars(Progress)

-----------------------------------------------------------------------------
(* Properties.                                                              *)

(* Type correctness: the counters stay within the widths the delay has.     *)
TypeOK == /\ pc \in PcLabels
          /\ val \in 0..Load /\ tcnt \in Nat /\ left \in Nat /\ owed \in Nat
          /\ clock \in BOOLEAN /\ phy \in Speed \cup {"none"}
          /\ polls \in 0..(ReadTo + 1) /\ mac \in Speed \cup {"none"}
          /\ started \in BOOLEAN /\ up \in BOOLEAN /\ link \in BOOLEAN
          /\ announced \in 0..2 /\ moved \in BOOLEAN

(* A delay never ends early, however the looks at the counter fall around   *)
(* its wraps and however long the gaps between them are: when it has ended, *)
(* the ticks counted for the milliseconds asked for have passed             *)
(* (core_delay.c:36, 54).                                                   *)
DelayNeverShort == pc \notin Waiting => owed = 0

(* When start-up is over, the interface is up just if the MAC runs, and its *)
(* address was announced once, after that.  If the PHY did not change since *)
(* it was first polled, that is just if it had ended the negotiation, and   *)
(* the MAC runs in the mode of the PHY; nobody looks at it again            *)
(* (ethernetif.c:307, 316-363; app_ethernet.c:60-71).                       *)
UpAsNegotiated ==
    /\ announced > 0 => started /\ up
    /\ pc = "running" =>
          /\ up <=> started
          /\ link <=> started
          /\ announced = IF up THEN 1 ELSE 0
          /\ polls > 0 /\ ~moved => (up <=> phy # "none") /\ (up => mac = phy)

(* Start-up ends, cable or no cable, when the PHY supplies its clock; if    *)
(* not it never does, since the tick that should end the wait stands still  *)
(* (stm32h7xx_hal_eth.c:335; LAN8720a.c:127).                               *)
StartupEnds == clock ~> pc = "running"
=============================================================================
