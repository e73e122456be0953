----------------------------- MODULE LightSwitch -----------------------------
(***************************************************************************)
(* The state machine of src/linux-coding-c/state_machine: the context LSM  *)
(* with its states OFF and ON, and the context CLOM that ON creates for    *)
(* its modes NORMAL ON and DELAY TO OFF.  The main loop reads a key if     *)
(* there is one and drives the machine ten times a second; the states      *)
(* compare the seconds of time(NULL) with the start of their delay.        *)
(*                                                                         *)
(* One turn of the loop is one step, for one thread runs the machine.  The *)
(* state objects are static, so what they hold outlives the state.         *)
(***************************************************************************)
EXTENDS Integers

CONSTANTS
  Long, Short,   \* AUTO_OFF_LONG_DELAY_SECONDS, AUTO_OFF_SHORT_DELAY_SECONDS
  MaxTime        \* bound: seconds

ASSUME DelayAssumption == Long \in Nat /\ Short \in Nat \ {0}
ASSUME BoundAssumption == MaxTime \in Nat

VARIABLES
  current,       \* LSM's current state: "OFF" or "ON"
  next_id,       \* OnStateData.next_id
  contexts,      \* how many CLOM contexts are allocated
  sub,           \* the current state of the last CLOM
  last_activity_time, delay_start_time,
  now,           \* time(NULL)
  polled,        \* a turn of the loop has run in this second
  since,         \* when the light last went on, was asked to go off, was
                 \* kept on or went off
  running

on == <<next_id, contexts, sub, last_activity_time, delay_start_time>>
vars == <<current, on, now, polled, since, running>>

\* sm_context_intial_state(light_ctx, LIGHT_STATE_ID_OFF) in main; statics are
\* zero, which is LIGHT_STATE_ID_OFF for next_id.
Init == /\ current = "OFF"
        /\ next_id = "OFF" /\ contexts = 0 /\ sub = "none"
        /\ last_activity_time = 0 /\ delay_start_time = 0
        /\ now = 0 /\ polled = FALSE /\ since = 0
        /\ running = TRUE
-----------------------------------------------------------------------------
\* The event of a turn: only the key 1 is one, any other key is IDLE.
Event(k) == IF k = "1" THEN "TOGGLE" ELSE "IDLE"

\* get_on_state: a new CLOM, whose initial state is NORMAL ON.
EnterOnStale ==                                                 \* mutant
  /\ current' = "ON"
  /\ contexts' = contexts + 1
  /\ sub' = "NORMAL"
  /\ UNCHANGED <<next_id, last_activity_time, delay_start_time>>
EnterOn ==
  /\ current' = "ON"
  /\ contexts' = contexts + 1
  /\ sub' = "NORMAL"
  /\ last_activity_time' = now
  /\ UNCHANGED <<next_id, delay_start_time>>

\* get_off_state, then on_handle_leave_impl destroys the CLOM.
LeaveOn ==
  /\ current' = "OFF"
  /\ next_id' = "OFF"
  /\ contexts' = contexts - 1
  /\ UNCHANGED <<sub, last_activity_time, delay_start_time>>

Stay == /\ next_id' = IF current = "ON" THEN "ON" ELSE next_id
        /\ UNCHANGED <<current, contexts, sub, last_activity_time,
                       delay_start_time>>

OffEvent(event) == IF event = "TOGGLE" THEN EnterOn ELSE Stay

\* on_n_handle_event_impl: the key begins the delay, the time turns off.
NormalEvent(event) ==
  IF event = "TOGGLE"
    THEN /\ sub' = "DELAY"
         /\ delay_start_time' = now
         /\ next_id' = "ON"
         /\ UNCHANGED <<current, contexts, last_activity_time>>
    ELSE IF now - last_activity_time > Long THEN LeaveOn ELSE Stay

\* on_d_handle_event_impl: the key goes back to NORMAL ON, which begins anew.
DelayLate(event) ==                                            \* mutant
  IF event = "TOGGLE"
    THEN /\ sub' = "NORMAL"
         /\ last_activity_time' = now
         /\ next_id' = "ON"
         /\ UNCHANGED <<current, contexts, delay_start_time>>
    ELSE IF now - delay_start_time > Short THEN LeaveOn ELSE Stay
DelayEvent(event) ==
  IF event = "TOGGLE"
    THEN /\ sub' = "NORMAL"
         /\ last_activity_time' = now
         /\ next_id' = "ON"
         /\ UNCHANGED <<current, contexts, delay_start_time>>
    ELSE IF now - delay_start_time >= Short THEN LeaveOn ELSE Stay

\* sm_context_handle_event of LSM.
HandleEvent(event) ==
  \/ current = "OFF" /\ OffEvent(event)
  \/ current = "ON" /\ sub = "NORMAL" /\ NormalEvent(event)
  \/ current = "ON" /\ sub = "DELAY" /\ DelayEvent(event)

\* A turn of the main loop.
Turn ==
  /\ running
  /\ \E key \in {"none", "1", "other"} : HandleEvent(Event(key))
  /\ since' = IF <<current, sub>>' = <<current, sub>> THEN since ELSE now
  /\ polled' = TRUE
  /\ UNCHANGED <<now, running>>

\* The loop turns at least once in a second.
Tick ==
  /\ polled /\ now < MaxTime
  /\ now' = now + 1
  /\ polled' = FALSE
  /\ UNCHANGED <<current, on, since, running>>

\* The key 2: sm_context_destroy of LSM, through handle_leave of ON.
Exit ==
  /\ running
  /\ running' = FALSE
  /\ contexts' = IF current = "ON" THEN contexts - 1 ELSE contexts
  /\ UNCHANGED <<current, next_id, sub, last_activity_time, delay_start_time,
                 now, polled, since>>

Next == Turn \/ Tick \/ Exit

Spec == Init /\ [][Next]_vars
-----------------------------------------------------------------------------
TypeOK ==
  /\ current \in {"OFF", "ON"} /\ next_id \in {"OFF", "ON"}
  /\ contexts \in Nat /\ sub \in {"none", "NORMAL", "DELAY"}
  /\ last_activity_time \in 0 .. now /\ delay_start_time \in 0 .. now
  /\ now \in 0 .. MaxTime /\ polled \in BOOLEAN
  /\ since \in 0 .. now
  /\ running \in BOOLEAN

\* One CLOM context exists while the light is on and none otherwise, over any
\* number of times it goes on and off: none leaks, none is destroyed twice
\* (state_on.c:119 and 144).
OneContext == contexts = IF current = "ON" /\ running THEN 1 ELSE 0

\* Nobody touching the switch, the light is never on for longer than the delay
\* it is in, whatever keys came before (state_machine/README.md:20 and 21):
\* once a turn of the loop has run in the second.
OffInTime ==
  running /\ polled /\ current = "ON" =>
    IF sub = "NORMAL" THEN now - since <= Long ELSE now - since < Short

\* Nor does it go off earlier: when it does, it has been in that delay for all
\* of it, since it last went on, was asked to go off or was kept on.  No time
\* of an earlier stay counts, though the objects that hold the times outlive
\* their states (state_on.c:38, 63, 80 and 102).
OffOnlyAfterDelay ==
  [][current = "ON" /\ current' = "OFF" =>
       now - since >= (IF sub = "NORMAL" THEN Long + 1 ELSE Short)]_vars
=============================================================================
