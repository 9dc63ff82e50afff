-------------------------------- MODULE Iso20 --------------------------------
(***************************************************************************)
(* The start of the firmware with the ISO 15118-20 controller built in, as *)
(* platformio.ini builds it: setup() (src/main.cpp), iso20_init and its    *)
(* callback for limits (src/iso15118_dc.cpp), and the controller's         *)
(* update_dc_limits, which calls that callback                             *)
(* (lib/libiso15118/src/tbd_controller.cpp).  A step is a call or a return *)
(* of the main task; the other tasks are in the other modules.             *)
(***************************************************************************)
EXTENDS Naturals, Sequences, SequencesExt

CONSTANT MaxFrames      \* the calls the main task's stack has room for

VARIABLES
    stack,                  \* the functions entered and not yet left
    returned,               \* the call the last of them made has returned
    g_iso20_controller      \* it points to a controller, which has its callbacks

vars == <<stack, returned, g_iso20_controller>>

Init == stack = <<"setup">> /\ returned = FALSE /\ g_iso20_controller = FALSE

In(f) == Last(stack) = f
HasRoom == Len(stack) < MaxFrames

Call(f) == HasRoom /\ stack' = Append(stack, f) /\ returned' = FALSE
Return == stack' = Front(stack) /\ returned' = TRUE

\* setup() does its other work before; loop() runs when it has returned.
Setup ==
    /\ In("setup")
    /\ IF returned THEN stack' = <<"loop">> /\ returned' = FALSE
                   ELSE Call("iso20_init")
    /\ UNCHANGED g_iso20_controller

\* The pointer is set before the limits are told.
iso20_init ==
    /\ In("iso20_init")
    /\ IF returned THEN Return ELSE Call("update_dc_limits")
    /\ g_iso20_controller' = TRUE

\* The controller keeps the limits and reports them to its callback.
update_dc_limits ==
    /\ In("update_dc_limits")
    /\ IF returned THEN Return ELSE Call("dc_max_limits")
    /\ UNCHANGED g_iso20_controller

\* The callback tells the controller, when there is one.
dc_max_limits ==
    /\ In("dc_max_limits")
    /\ IF returned \/ ~g_iso20_controller THEN Return ELSE Call("update_dc_limits")
    /\ UNCHANGED g_iso20_controller

\* A call without room is a panic, which restarts the firmware.
Panic ==
    /\ ~HasRoom /\ ~returned /\ ~In("loop")
    /\ stack' = <<"setup">> /\ returned' = FALSE /\ g_iso20_controller' = FALSE

Next == Setup \/ iso20_init \/ update_dc_limits \/ dc_max_limits \/ Panic

\* The main task is scheduled.
Spec == Init /\ [][Next]_vars /\ WF_vars(Next)

\* setup() ends, loop() is reached and iso20_loop runs in it, as the
\* integration plan says of the default build.
LoopRuns == <>(stack = <<"loop">>)
===============================================================================
