-------------------------------- MODULE Gui --------------------------------
(***************************************************************************)
(* The part of kernel_main from usb_touchpad_init on, and the frame loop   *)
(* it ends in: gui/graphics_init.c and gui/button.c, over the drivers of   *)
(* Ps2.  A frame runs the scheduler's tasks, polls the pointer, draws the  *)
(* taskbar and the menu, whose buttons act while they are drawn, and then  *)
(* deals with clicks.                                                      *)
(*                                                                         *)
(* Left out: all drawing, with the caches that only save some of it, and   *)
(* the moving boxes.  Positions are those of the code's arithmetic; the    *)
(* sizes it has as literals are constants.                                 *)
(***************************************************************************)
EXTENDS Ps2

CONSTANTS
    W, H,               \* the screen
    ICON_SIZE,
    Pad,                \* around icons, and left of the menu: 8
    Spacing,            \* between the menu's buttons: 5
    MenuW, MenuH,       \* 320, 400
    BottomH,            \* 49
    MaxStep,            \* the most a poll moves the pointer: 32
    SatPolls,           \* polls at the limit that switch to absolute positions: 3
    TaskRegistered      \* is keyboard_task registered: {FALSE} in kernel_main

ASSUME GuiAssumption ==
    /\ \A v \in {W, H, ICON_SIZE, Pad, Spacing, MenuW, MenuH, BottomH, MaxStep, SatPolls} :
            v \in Nat \ {0}
    /\ W >= ICON_SIZE /\ H >= ICON_SIZE + Pad
    /\ TaskRegistered \subseteq BOOLEAN

VARIABLES
    pc,                 \* "init", "config", "defaults", "reporting", then a frame:
                        \* "tasks", "poll", "poll ps2", "draw", "click"; "off"
    tries,              \* failed calls of ps2_touchpad_init
    keyboardTask,
    cursor_x, cursor_y, cursor_hidden,
    absolute_mode, sat_count, saw_x_sat, saw_y_sat,
    have, buttons,      \* poll_have, poll_buttons
    prev_buttons,
    g_cursor_x, g_cursor_y, g_buttons, pressed,     \* of button.c
    g_button_toggled,   \* the menu is open
    box,                \* g_left_box_*: [active, x, y]
    fired               \* observed: callbacks since button.c last saw the left button up

saturation == <<absolute_mode, sat_count, saw_x_sat, saw_y_sat>>
pointer    == <<cursor_x, cursor_y, saturation, have, buttons>>
ui         == <<pressed, g_button_toggled, fired>>
clicked    == <<g_cursor_x, g_cursor_y, g_buttons, prev_buttons, box, cursor_hidden>>
vars       == <<ps2Vars, pc, tries, keyboardTask, pointer, ui, clicked>>

LEFT  == 0
RIGHT == 1

Init ==
    /\ Ps2Init
    /\ pc = "init" /\ tries = 0
    /\ keyboardTask \in TaskRegistered
    /\ cursor_x = W \div 2 /\ cursor_y = H \div 2 /\ cursor_hidden = FALSE
    /\ absolute_mode = FALSE /\ sat_count = 0 /\ saw_x_sat = FALSE /\ saw_y_sat = FALSE
    /\ have = FALSE /\ buttons = {} /\ prev_buttons = {}
    /\ g_cursor_x = 0 /\ g_cursor_y = 0 /\ g_buttons = {} /\ pressed = FALSE
    /\ g_button_toggled = FALSE
    /\ box = [active |-> FALSE, x |-> 0, y |-> 0]
    /\ fired = 0

gui == <<keyboardTask, pointer, ui, clicked>>

-----------------------------------------------------------------------------
(* A byte that is sent during a frame might as well be sent before it, and  *)
(* arrive later.                                                            *)
DeviceStep ==
    /\ pc \in {"init", "tasks"}
    /\ \/ \E p \in Packets : MouseReports(p)
       \/ \E v \in KeyBytes : KeySends(v)
    /\ UNCHANGED <<driver, g_using_usb, g_last_scancode, pc, tries, gui>>

(* usb_touchpad_init, which calls ps2_touchpad_init also when it prefers    *)
(* USB, and then ignores a failure; without USB kernel_main tries again.    *)
InitAsk ==
    /\ pc = "init" /\ AskConfig /\ pc' = "config"
    /\ UNCHANGED <<g_using_usb, g_last_scancode, tries, gui>>

InitConfig ==
    /\ pc = "config" /\ WriteConfig /\ pc' = "defaults"
    /\ UNCHANGED <<g_using_usb, g_last_scancode, tries, gui>>

InitFails ==
    /\ pc = "config"
    /\ IF g_using_usb \/ tries = 1 THEN pc' = "tasks" /\ tries' = 0
                                   ELSE pc' = "init" /\ tries' = tries + 1
    /\ UNCHANGED <<ps2Vars, gui>>

InitDefaults ==
    /\ pc = "defaults" /\ SetDefaults /\ pc' = "reporting"
    /\ UNCHANGED <<g_using_usb, g_last_scancode, tries, gui>>

InitReporting ==
    /\ pc = "reporting" /\ EnableReporting /\ pc' = "tasks" /\ tries' = 0
    /\ UNCHANGED <<g_using_usb, g_last_scancode, gui>>

-----------------------------------------------------------------------------
(* scheduler_run_all runs every task once (see Scheduler).                  *)
RunTasks ==
    /\ pc = "tasks" /\ pc' = "poll"
    /\ IF keyboardTask THEN \E a \in Arrivals : keyboard_task(a) ELSE UNCHANGED ps2Vars
    /\ UNCHANGED <<tries, gui>>

(* The pointer has moved.  SatPolls polls in a row that are at the limit of *)
(* the type, with both axes among them, switch to absolute positions.       *)
Saturated(d) == d \in {-128, 127}
OnX(v) == Clamp(v, 0, W - 1)
(* Faulty variant: one too many.                                            *)
OnY_Inclusive(v) == Clamp(v, 0, H)
OnY(v) == Clamp(v, 0, H - 1)

Saturate(p) ==
    LET any == Saturated(p.dx) \/ Saturated(p.dy)
    IN  /\ sat_count' = IF any THEN Clamp(sat_count + 1, 0, SatPolls) ELSE 0
        /\ saw_x_sat' = (any /\ (saw_x_sat \/ Saturated(p.dx)))
        /\ saw_y_sat' = (any /\ (saw_y_sat \/ Saturated(p.dy)))
        /\ absolute_mode' = (sat_count' >= SatPolls /\ saw_x_sat' /\ saw_y_sat')

MoveRelative(p) ==
    /\ have' = TRUE /\ buttons' = p.buttons
    /\ Saturate(p)
    /\ IF absolute_mode' THEN UNCHANGED <<cursor_x, cursor_y>>
       ELSE /\ cursor_x' = OnX(cursor_x + Clamp(p.dx, -MaxStep, MaxStep))
            /\ cursor_y' = OnY(cursor_y - Clamp(p.dy, -MaxStep, MaxStep))

(* touchpad_poll_absolute.                                                  *)
MoveAbsolute(p) ==
    /\ have' = TRUE /\ buttons' = p.buttons
    /\ cursor_x' = OnX((abs_pos_x' * W) \div AbsMax)
    /\ cursor_y' = OnY((abs_pos_y' * H) \div AbsMax)
    /\ UNCHANGED saturation

(* No packet: for the GUI no button is down.                                *)
NoMove == have' = FALSE /\ buttons' = {} /\ UNCHANGED <<cursor_x, cursor_y, saturation>>

(* usb_touchpad_poll; with USB it is usb_hid_poll, which polls PS/2, and if *)
(* that has nothing PS/2 is polled again.                                   *)
PollMoved ==
    /\ pc \in {"poll", "poll ps2"}
    /\ \E a \in Arrivals :
        /\ ps2_process_incoming(a)
        /\ \E r \in {MouseIn(a)} : \E p \in {Poll(r)} :
           /\ p.have /\ touchpad_poll(a, r, p)
           /\ IF absolute_mode THEN MoveAbsolute(p) ELSE MoveRelative(p)
    /\ pc' = "draw"
    /\ UNCHANGED <<tries, keyboardTask, ui, clicked>>

PollNothing ==
    /\ pc \in {"poll", "poll ps2"}
    /\ \E a \in Arrivals :
        /\ ps2_process_incoming(a)
        /\ \E r \in {MouseIn(a)} : \E p \in {Poll(r)} : ~p.have /\ touchpad_poll(a, r, p)
    /\ IF pc = "poll" /\ g_using_usb /\ ~absolute_mode
       THEN pc' = "poll ps2" /\ UNCHANGED pointer
       ELSE pc' = "draw" /\ NoMove
    /\ UNCHANGED <<tries, keyboardTask, ui, clicked>>

-----------------------------------------------------------------------------
(* The geometry of taskbar, start button and menu.                          *)
Button    == ICON_SIZE + Pad
TaskbarY  == H - Button
MenuY     == IF H - Button - MenuH < Pad THEN Pad ELSE H - Button - MenuH
BottomY   == MenuY + MenuH - BottomH
MenuBtnY  == BottomY + (BottomH - Button) \div 2
ShutdownX == Pad + MenuW - Button - Pad
RebootX   == ShutdownX - (Button + Spacing)

In(x, y, x0, y0, w, h) == x0 <= x /\ x < x0 + w /\ y0 <= y /\ y < y0 + h

(* Faulty variant: a button the pointer is not on takes the press for over. *)
Released_Outside(left, inside) == ~left \/ ~inside

Released(left, inside) == ~left

(* drawButton on the state s of the buttons, at (x, y): pressed is one flag *)
(* for all buttons.  The pointer is where the previous frame left it.  A    *)
(* callback that ends the machine does not return.                          *)
drawButton(s, x, y, cb) ==
    LET inside == In(g_cursor_x, g_cursor_y, x, y, Button, Button)
        left   == LEFT \in g_buttons
        hit    == inside /\ left /\ ~s.pressed
    IN  IF s.ends THEN s
        ELSE [pressed |-> (s.pressed \/ hit) /\ ~Released(left, inside),
              toggled |-> IF hit /\ cb = "start_menu" THEN ~s.toggled ELSE s.toggled,
              ends    |-> hit /\ cb \in {"shutdown", "reboot"},
              fired   |-> IF hit /\ s.fired < 2 THEN s.fired + 1 ELSE s.fired]

Taskbar == drawButton([pressed |-> pressed, toggled |-> g_button_toggled, ends |-> FALSE,
                       fired |-> fired], Pad, TaskbarY, "start_menu")

Shutdown(s) == IF s.toggled THEN drawButton(s, ShutdownX, MenuBtnY, "shutdown") ELSE s
Reboot(s)   == IF s.toggled THEN drawButton(s, RebootX, MenuBtnY, "reboot") ELSE s

Draw ==
    /\ pc = "draw"
    /\ \E t \in {Taskbar} : \E d \in {Shutdown(t)} : \E s \in {Reboot(d)} :
        /\ pc' = IF s.ends THEN "off" ELSE "click"
        /\ pressed' = s.pressed /\ g_button_toggled' = s.toggled /\ fired' = s.fired
    /\ UNCHANGED <<ps2Vars, tries, keyboardTask, pointer, clicked>>

(* A key hides the pointer until it moves; while it is hidden the buttons   *)
(* are not told anything.                                                   *)
(* Faulty variant: the key is left there while the pointer does not move.   *)
TakeKey_Moving ==
    /\ g_last_scancode' = IF have THEN 0 ELSE g_last_scancode
    /\ UNCHANGED <<devices, driver, g_using_usb>>

(* keyboard_get_scancode_and_clear.                                         *)
TakeKey == g_last_scancode' = 0 /\ UNCHANGED <<devices, driver, g_using_usb>>

(* poll_have and poll_buttons are locals of the loop's body.                *)
NextFrame == pc' = "tasks" /\ have' = FALSE /\ buttons' = {}

Hides == cursor_hidden \/ g_last_scancode # 0

ClickHidden ==
    /\ pc = "click" /\ Hides /\ ~have
    /\ TakeKey /\ cursor_hidden' = TRUE /\ NextFrame
    /\ UNCHANGED <<tries, keyboardTask, cursor_x, cursor_y, saturation, ui, g_cursor_x,
                   g_cursor_y, g_buttons, prev_buttons, box>>

(* The pointer is drawn, and button_update_cursor told; a new press outside *)
(* the open menu closes it, one outside the box removes it, and the right   *)
(* button puts the box where the pointer is or takes it away.               *)
InMenu(x, y)  == In(x, y, Pad, MenuY, MenuW, MenuH)
InStart(x, y) == In(x, y, Pad, TaskbarY, Button, Button)
InBox(x, y)   == box.active /\ In(x, y, box.x, box.y, ICON_SIZE, ICON_SIZE)

BoxAfter(new, x, y) ==
    IF RIGHT \in new
    THEN IF InBox(x, y) THEN [box EXCEPT !.active = FALSE]
         ELSE [active |-> TRUE, x |-> x, y |-> y]
    ELSE IF LEFT \in new /\ ~InBox(x, y) THEN [box EXCEPT !.active = FALSE] ELSE box

Click ==
    /\ pc = "click" /\ ~(Hides /\ ~have)
    /\ TakeKey /\ cursor_hidden' = FALSE /\ NextFrame
    /\ LET x   == Clamp(cursor_x, 0, W - ICON_SIZE)
           y   == Clamp(cursor_y, 0, H - ICON_SIZE)
           new == (buttons \ prev_buttons) \intersect {LEFT, RIGHT}
       IN  /\ cursor_x' = x /\ cursor_y' = y
           /\ g_cursor_x' = x /\ g_cursor_y' = y /\ g_buttons' = buttons
           /\ g_button_toggled' =
                 (g_button_toggled /\ (new # {} => InMenu(x, y) \/ InStart(x, y)))
           /\ box' = BoxAfter(new, x, y)
    /\ prev_buttons' = buttons
    /\ fired' = IF LEFT \in buttons THEN fired ELSE 0
    /\ UNCHANGED <<tries, keyboardTask, saturation, pressed>>

-----------------------------------------------------------------------------
KernelStep ==
    \/ InitAsk \/ InitConfig \/ InitFails \/ InitDefaults \/ InitReporting
    \/ RunTasks \/ PollMoved \/ PollNothing \/ Draw \/ ClickHidden \/ Click

Next == DeviceStep \/ KernelStep

(* The only thread of the kernel keeps running: it polls, nothing blocks it.*)
Spec == Init /\ [][Next]_vars /\ WF_vars(KernelStep)

-----------------------------------------------------------------------------
(* Properties.                                                              *)

(* The state has its type: the pointer never leaves the screen, whatever    *)
(* packets are decoded, and the rings keep their indices in bounds.         *)
TypeOK ==
    /\ Ps2TypeOK
    /\ cursor_x \in 0 .. W - 1 /\ cursor_y \in 0 .. H - 1
    /\ g_cursor_x \in 0 .. W - ICON_SIZE /\ g_cursor_y \in 0 .. H - ICON_SIZE
    /\ buttons \subseteq 0 .. 2 /\ g_buttons \subseteq 0 .. 2
    /\ tries \in 0 .. 1 /\ sat_count \in 0 .. SatPolls

(* From the frame that tells button.c that the left button is down to the   *)
(* next that tells it otherwise, at most one button of the screen acts,     *)
(* wherever the pointer is dragged to, although all of them share one flag, *)
(* each looks at it in every frame, and the menu opens under the pointer    *)
(* (button.c:80-96).  Such a streak of frames is shorter than a press: one  *)
(* whose poll finds no packet reports no button (graphics_init.c:288-294),  *)
(* so that a press held across it acts again.                               *)
OncePerStreak == fired <= 1

(* A make code taken out of the keyboard's ring is not overwritten before   *)
(* the GUI has seen it: g_last_scancode has room for one, and the two sides *)
(* are called from different places of the frame (keyboard.c:41-72).        *)
KeyNotOverwritten == [][g_last_scancode # 0 => g_last_scancode' \in {0, g_last_scancode}]_vars

(* Input is taken as long as it comes, unless the machine is switched off:  *)
(* again and again the mouse's ring holds no whole packet, and, if there is *)
(* a keyboard_task, the keyboard's ring is empty or a byte is taken out of  *)
(* it, break codes included (at most one make code in a frame, so that a    *)
(* quick typist may keep it from ever being empty).                         *)
InputTaken ==
    /\ []<>(pc = "off" \/ Count(mouse) < 3)
    /\ \/ []<>(pc = "off" \/ (keyboardTask => Count(kbd) = 0))
       \/ []<><<kbd'.tail # kbd.tail>>_vars
=============================================================================
