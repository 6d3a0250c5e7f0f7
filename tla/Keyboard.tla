------------------------------- MODULE Keyboard -------------------------------
(***************************************************************************)
(* The path of a key stroke: the PS/2 controller and keyboard, their driver   *)
(* (drivers/ps2.rs), the event queue and its device file (drivers/keyboard.rs *)
(* and beskar-core's keyboard.rs) and the loop of the shell that reads it.    *)
(* Bytes are numbers, the configuration byte is the set of its bits.  The     *)
(* controller holds one byte for the host at a time, and raises its interrupt *)
(* when it takes that byte; polling loops may give up, or read the previous   *)
(* byte again, because the code does not wait for the answer.                 *)
(***************************************************************************)
EXTENDS Integers, Sequences, SequencesExt, FiniteSets, FiniteSetsExt

CONSTANTS KeysTyped,        \* the keys the user presses and releases, each a
                            \* sequence of [pre, code] with pre 0 for no prefix
          SEND_TRIES,       \* TRIES of send_command()
          QUEUE_SIZE,
          MaxTyped

VARIABLES kb_pc,            \* the driver's initialization
          kb_cfg,           \* the controller's configuration byte
          kb_config,        \* initialize()'s local copy of it
          kb_wire,          \* bytes on their way to the controller's output buffer
          kb_obf,           \* the output buffer: <<>> or <<byte>>
          kb_last,          \* the byte a read of the empty buffer returns
          kb_irq,           \* an interrupt is pending
          kb_set, kb_arg,   \* the keyboard's scan code set; it awaits F0's argument
          kb_try,           \* attempts of send_command() so far
          kb_ext,           \* EXTENDED
          kb_queue,         \* KeyboardManager.event_queue
          kb_shell,         \* the shell: poll, idle (found nothing), asleep
          kb_typed, kb_seen, kb_lost, kb_handled,   \* histories, and how many were dropped
          kb_clean          \* nothing was on its way when the driver came up

kbdVars == <<kb_pc, kb_cfg, kb_config, kb_wire, kb_obf, kb_last, kb_irq, kb_set, kb_arg, kb_try,
              kb_ext, kb_queue, kb_shell, kb_typed, kb_seen, kb_lost, kb_handled, kb_clean>>

Line == <<kb_wire, kb_obf, kb_last, kb_irq>>
Device == <<kb_set, kb_arg>>
Reader == <<kb_ext, kb_queue, kb_shell, kb_seen, kb_lost, kb_handled>>

ACK == 250
PASSED == 170
FAILED == {252, 253}
RESEND == 254
EXTEND == 224

KbdInit ==
    /\ kb_pc = "probe" /\ kb_cfg = {0, 6} /\ kb_config = {}
    /\ kb_wire \in {<<>>, <<28>>} /\ kb_obf = <<>> /\ kb_last = 0 /\ kb_irq = FALSE
    /\ kb_set = 2 /\ kb_arg = FALSE /\ kb_try = 0
    /\ kb_ext = FALSE /\ kb_queue = <<>> /\ kb_shell = "poll"
    /\ kb_typed = <<>> /\ kb_seen = <<>> /\ kb_lost = {} /\ kb_handled = <<>> /\ kb_clean = FALSE

-----------------------------------------------------------------------------
\* KeyCode, in the order of its discriminants.
KeyCodes == <<"A", "B", "C", "D", "E", "F", "G", "H", "I", "J", "K", "L", "M", "N", "O", "P", "Q",
    "R", "S", "T", "U", "V", "W", "X", "Y", "Z", "Num0", "Num1", "Num2", "Num3", "Num4", "Num5",
    "Num6", "Num7", "Num8", "Num9", "Enter", "Escape", "Backspace", "Tab", "Space", "ShiftLeft",
    "ShiftRight", "CtrlLeft", "CtrlRight", "AltLeft", "AltRight", "CapsLock", "Insert", "Delete",
    "Home", "End", "PageUp", "PageDown", "ArrowUp", "ArrowDown", "ArrowLeft", "ArrowRight", "F1",
    "F2", "F3", "F4", "F5", "F6", "F7", "F8", "F9", "F10", "F11", "F12", "NumLock", "Numpad0",
    "Numpad1", "Numpad2", "Numpad3", "Numpad4", "Numpad5", "Numpad6", "Numpad7", "Numpad8",
    "Numpad9", "NumpadAdd", "NumpadSub", "NumpadMul", "NumpadDiv", "NumpadEnter", "NumpadDot",
    "Minus", "Equal", "LeftBracket", "RightBracket", "Backslash", "Semicolon", "Apostrophe",
    "Tilde", "Comma", "Dot", "Slash", "PrintScreen", "ScrollLock", "PauseBreak", "Menu",
    "WindowsLeft", "WindowsRight">>

\* scancode_set1_to_keycode(): the codes 1 to 88, and the extended ones.
Set1 == <<"Escape", "Num1", "Num2", "Num3", "Num4", "Num5", "Num6", "Num7", "Num8", "Num9", "Num0",
    "Minus", "Equal", "Backspace", "Tab", "Q", "W", "E", "R", "T", "Y", "U", "I", "O", "P",
    "LeftBracket", "RightBracket", "Enter", "CtrlLeft", "A", "S", "D", "F", "G", "H", "J", "K",
    "L", "Semicolon", "Apostrophe", "Tilde", "ShiftLeft", "Backslash", "Z", "X", "C", "V", "B",
    "N", "M", "Comma", "Dot", "Slash", "ShiftRight", "NumpadMul", "AltLeft", "Space", "CapsLock",
    "F1", "F2", "F3", "F4", "F5", "F6", "F7", "F8", "F9", "F10", "", "", "Numpad7", "Numpad8",
    "Numpad9", "NumpadSub", "Numpad4", "Numpad5", "Numpad6", "NumpadAdd", "Numpad1", "Numpad2",
    "Numpad3", "Numpad0", "NumpadDot", "", "", "", "F11", "F12">>

Set1Extended == [c \in {29, 72, 75, 77, 80} |->
    CASE c = 29 -> "CtrlRight" [] c = 72 -> "ArrowUp" [] c = 75 -> "ArrowLeft"
      [] c = 77 -> "ArrowRight" [] c = 80 -> "ArrowDown"]

KeyName(ext, code) ==
    IF ext THEN (IF code \in DOMAIN Set1Extended THEN Set1Extended[code] ELSE "")
    ELSE IF code \in DOMAIN Set1 THEN Set1[code] ELSE ""

\* A KeyEvent, with key "" for None; the top bit of the byte says released.
ToKeyEvent(ext, byte) == [key |-> KeyName(ext, byte % 128), released |-> byte >= 128]

Discriminant(key) == CHOOSE n \in DOMAIN KeyCodes : KeyCodes[n] = key

\* Mutant: the state shares the byte of the key code.
PackOptionNarrow(e) ==
    IF e.key = "" THEN 65535
    ELSE (Discriminant(e.key) - 1) + (IF e.released THEN 2^6 ELSE 0)

PackOption(e) ==
    IF e.key = "" THEN 65535 ELSE (Discriminant(e.key) - 1) + (IF e.released THEN 2^8 ELSE 0)

UnpackOption(v) ==
    IF v % 2^8 < Len(KeyCodes) /\ (v \div 2^8) % 2^8 \in {0, 1}
    THEN [key |-> KeyCodes[(v % 2^8) + 1], released |-> (v \div 2^8) % 2^8 = 1]
    ELSE [key |-> "", released |-> FALSE]

-----------------------------------------------------------------------------
\* External: the controller takes the next byte from the wire when its buffer is free.
Transfer ==
    /\ kb_wire # <<>> /\ kb_obf = <<>>
    /\ kb_obf' = <<Head(kb_wire)>> /\ kb_wire' = Tail(kb_wire)
    /\ kb_irq' = (kb_irq \/ 0 \in kb_cfg)
    /\ UNCHANGED <<kb_pc, kb_cfg, kb_config, kb_last, Device, kb_try, Reader, kb_typed,
                   kb_clean>>

\* read_data(): the byte in the buffer, or the previous one again.
ReadData(v) ==
    /\ v = IF kb_obf = <<>> THEN kb_last ELSE Head(kb_obf)
    /\ kb_obf' = <<>> /\ kb_last' = v

\* The controller's answer to a command goes to the end of the wire.
Answer(byte) == kb_wire' = Append(kb_wire, byte)

BitsOf(byte) == {k \in 0..7 : (byte \div 2^k) % 2 = 1}
ByteOf(bits) == MapThenSumSet(LAMBDA k : 2^k, bits)

KbGoto(from, to) == kb_pc = from /\ kb_pc' = to
KeepDriver == UNCHANGED <<Device, kb_try, Reader, kb_typed, kb_clean>>

\* initialize(): the FADT says whether there is a controller; both ports are disabled,
\* one byte is flushed and the configuration is asked for.
Probe ==
    /\ kb_pc = "probe" /\ kb_pc' \in {"absent", "config"}
    /\ IF kb_pc' = "absent" THEN UNCHANGED <<kb_cfg, kb_wire, kb_obf, kb_last>>
       ELSE /\ kb_cfg' = kb_cfg \cup {4, 5}
            /\ \E v \in 0..255 : ReadData(v)
            /\ Answer(ByteOf(kb_cfg'))
    /\ UNCHANGED <<kb_config, kb_irq>> /\ KeepDriver

\* Whatever was read is taken for the configuration; then the self test, which may
\* reset it in the controller.
ReadConfig ==
    /\ KbGoto("config", "selftest")
    /\ \E v \in 0..255 : ReadData(v) /\ kb_config' = BitsOf(v) \ {0, 1, 6}
    /\ kb_cfg' \in {kb_config', {6}}
    /\ Answer(85) /\ UNCHANGED kb_irq /\ KeepDriver

\* The loops that read until the expected answer comes.
AwaitByte(at, byte) ==
    /\ kb_pc = at /\ \E v \in 0..255 : ReadData(v) /\ v # byte
    /\ UNCHANGED <<kb_pc, kb_cfg, kb_config, kb_wire, kb_irq>> /\ KeepDriver

GiveUp ==
    /\ kb_pc \in {"selftest", "porttest", "bat"}
    /\ kb_pc' = IF kb_pc = "bat" THEN "unknown" ELSE "invalid"
    /\ UNCHANGED <<kb_cfg, kb_config, Line>> /\ KeepDriver

SelfTestPassed ==
    /\ KbGoto("selftest", "porttest") /\ ReadData(85)
    /\ kb_cfg' = kb_config /\ Answer(0)
    /\ UNCHANGED <<kb_config, kb_irq>> /\ KeepDriver

\* Mutant: the configuration from before the self test is not completed.
PortTestPassedRaw ==
    /\ KbGoto("porttest", "reset") /\ ReadData(0)
    /\ kb_cfg' = kb_config
    /\ UNCHANGED <<kb_config, kb_wire, kb_irq>> /\ KeepDriver

\* The first port is enabled, with its interrupt and its clock.
PortTestPassed ==
    /\ KbGoto("porttest", "reset") /\ ReadData(0)
    /\ kb_cfg' = (kb_config \cup {0}) \ {4}
    /\ UNCHANGED <<kb_config, kb_wire, kb_irq>> /\ KeepDriver

-----------------------------------------------------------------------------
\* Ps2Keyboard::new() sends three commands: reset, F0, and the set number 1.
Stages == {"reset", "set", "arg"}

\* External: how the keyboard answers; it may ask for a repetition, fail its self test,
\* or say nothing.
Reply(stage) ==
    CASE stage = "reset" -> {<<ACK, PASSED>>, <<ACK, 252>>, <<RESEND>>, <<>>}
      [] stage = "set" -> {<<ACK>>, <<RESEND>>}
      [] stage = "arg" -> IF kb_arg THEN {<<ACK>>} ELSE {<<RESEND>>}

\* send(): one attempt to send; it fails when the input buffer stays full.
SendCommand(stage) ==
    /\ kb_pc = stage
    /\ \E reply \in Reply(stage) :
           /\ kb_wire' = kb_wire \o reply
           /\ kb_set' = IF reply = <<>> \/ Head(reply) # ACK THEN kb_set
                        ELSE CASE stage = "reset" -> 2 [] stage = "arg" -> 1 [] OTHER -> kb_set
           /\ kb_arg' = IF reply = <<>> \/ Head(reply) # ACK THEN kb_arg ELSE stage = "set"
    /\ kb_pc' = stage \o "-recv"
    /\ UNCHANGED <<kb_cfg, kb_config, kb_obf, kb_last, kb_irq, kb_try, Reader, kb_typed, kb_clean>>

\* What new() does with send_command()'s result.
AfterCommand(stage, value) ==
    IF value # ACK THEN "invalid"
    ELSE CASE stage = "reset" -> "bat" [] stage = "set" -> "arg" [] stage = "arg" -> "up"

\* recv() and the rest of send_command(): a value other than an acknowledgement sends the
\* command again, up to SEND_TRIES times; the last attempt's result is returned as it is.
Recv(stage) ==
    /\ kb_pc = stage \o "-recv" /\ kb_obf # <<>>
    /\ ReadData(Head(kb_obf))
    /\ LET value == Head(kb_obf)
           again == value \notin {ACK, PASSED} \cup FAILED /\ kb_try < SEND_TRIES
       IN  /\ kb_try' = IF again THEN kb_try + 1 ELSE 0
           /\ kb_pc' = CASE again -> stage
                         [] value \in FAILED /\ kb_try < SEND_TRIES ->
                              (IF stage = "reset" THEN "invalid" ELSE "panic")
                         [] OTHER -> AfterCommand(stage, value)
    /\ UNCHANGED <<kb_cfg, kb_config, kb_wire, kb_irq, Device, Reader, kb_typed, kb_clean>>

\* A send or a receive timed out; an error of the last attempt is unwrapped, except for
\* the reset.
NoAnswer(stage) ==
    /\ kb_pc \in {stage, stage \o "-recv"} /\ kb_obf = <<>>
    /\ IF kb_try < SEND_TRIES
       THEN kb_try' = kb_try + 1 /\ kb_pc' = stage
       ELSE kb_try' = 0 /\ kb_pc' = IF stage = "reset" THEN "invalid" ELSE "panic"
    /\ UNCHANGED <<kb_cfg, kb_config, Line, Device, Reader, kb_typed, kb_clean>>

SelfTestOfKeyboard ==
    /\ kb_pc = "bat"
    /\ \E v \in 0..255 : /\ ReadData(v)
                         /\ kb_pc' = CASE v = PASSED -> "set" [] v \in FAILED -> "invalid"
                                       [] OTHER -> "bat"
    /\ UNCHANGED <<kb_cfg, kb_config, kb_wire, kb_irq>> /\ KeepDriver

\* init(): PS2_KEYBOARD is set, and from now on the interrupt handler reads the data.
DriverUp ==
    /\ KbGoto("up", "ready")
    /\ kb_clean' = (kb_wire = <<>> /\ kb_obf = <<>>)
    /\ kb_config' = {}                  \* the local is gone
    /\ UNCHANGED <<kb_cfg, Line, Device, kb_try, Reader, kb_typed>>

-----------------------------------------------------------------------------
Code(part, released) ==
    (IF part.pre = 0 THEN <<>> ELSE <<part.pre>>) \o <<IF released THEN part.code + 128 ELSE part.code>>

\* External: the user types; a key sends its codes, some after an E0 or E1.
Type(k, released) ==
    /\ Len(kb_typed) < MaxTyped /\ 4 \notin kb_cfg 
    /\ kb_pc \in {"ready", "up", "set"}
    /\ kb_wire' = kb_wire \o FlattenSeq([n \in DOMAIN k |-> Code(k[n], released)])
    /\ kb_typed' = IF kb_pc = "ready" THEN Append(kb_typed, [k |-> k, released |-> released])
                   ELSE kb_typed
    /\ kb_pc # "ready" => kb_wire = <<>>
    /\ UNCHANGED <<kb_pc, kb_cfg, kb_config, kb_obf, kb_last, kb_irq, Device, kb_try, Reader,
                   kb_clean>>

\* push_event(): a full queue drops the event; one waiter is woken either way.
PushEvent(e) ==
    IF e.key = "" THEN UNCHANGED <<kb_queue, kb_shell, kb_seen, kb_lost>>
    ELSE /\ kb_seen' = Append(kb_seen, e)
         /\ IF Len(kb_queue) < QUEUE_SIZE
            THEN kb_queue' = Append(kb_queue, e) /\ UNCHANGED kb_lost
            ELSE kb_lost' = kb_lost \cup {Len(kb_seen')} /\ UNCHANGED kb_queue
         /\ kb_shell' = IF kb_shell = "asleep" THEN "poll" ELSE kb_shell

\* Mutant: the prefix of an extended key stays in force.
HandleByteSticky(byte) ==
    IF byte = EXTEND
    THEN kb_ext' = TRUE /\ kb_pc' = kb_pc /\ UNCHANGED <<kb_queue, kb_shell, kb_seen, kb_lost>>
    ELSE kb_pc' = kb_pc /\ kb_ext' = kb_ext /\ PushEvent(ToKeyEvent(kb_ext, byte))

HandleByte(byte) ==
    CASE byte = EXTEND ->
             /\ kb_ext' = TRUE /\ kb_pc' = IF kb_ext THEN "panic" ELSE kb_pc
             /\ UNCHANGED <<kb_queue, kb_shell, kb_seen, kb_lost>>
      [] byte = 225 ->
             /\ kb_ext' = TRUE /\ UNCHANGED <<kb_pc, kb_queue, kb_shell, kb_seen, kb_lost>>
      [] OTHER ->
             /\ kb_ext' = FALSE /\ kb_pc' = kb_pc
             /\ IF byte \in {0, ACK} THEN UNCHANGED <<kb_queue, kb_shell, kb_seen, kb_lost>>
                ELSE PushEvent(ToKeyEvent(kb_ext, byte))

\* handle_keyboard_interrupt(): before the driver is up, and when the status says there
\* is no data, nothing is read.
HandleInterrupt ==
    /\ kb_irq /\ kb_irq' = FALSE
    /\ IF kb_pc # "ready" \/ kb_obf = <<>>
       THEN UNCHANGED <<kb_pc, kb_obf, kb_last, Reader>>
       ELSE ReadData(Head(kb_obf)) /\ HandleByte(Head(kb_obf)) /\ UNCHANGED kb_handled
    /\ UNCHANGED <<kb_cfg, kb_config, kb_wire, Device, kb_try, kb_typed, kb_clean>>

\* The shell: poll_keyboard() reads one packed event from the device file.  (Polls before
\* the driver is up find nothing and are left out.)
Poll ==
    /\ kb_pc = "ready" /\ kb_shell \in {"poll", "idle"}
    /\ IF kb_queue = <<>> THEN kb_shell' = "idle" /\ UNCHANGED <<kb_queue, kb_handled>>
       ELSE /\ kb_handled' = Append(kb_handled, UnpackOption(PackOption(Head(kb_queue))))
            /\ kb_queue' = Tail(kb_queue) /\ kb_shell' = "poll"
    /\ UNCHANGED <<kb_pc, kb_cfg, kb_config, Line, Device, kb_try, kb_ext, kb_typed, kb_seen,
                   kb_lost, kb_clean>>

\* After 300 ms without input the shell waits for the next keyboard interrupt.
WaitNextEvent ==
    /\ kb_shell = "idle" /\ kb_shell' = "asleep"
    /\ UNCHANGED <<kb_pc, kb_cfg, kb_config, Line, Device, kb_try, kb_ext, kb_queue, kb_typed,
                   kb_seen, kb_lost, kb_handled, kb_clean>>

KbdNext ==
    \/ Transfer \/ Probe \/ ReadConfig \/ AwaitByte("selftest", 85) \/ AwaitByte("porttest", 0)
    \/ SelfTestPassed \/ PortTestPassed \/ GiveUp
    \/ (\E s \in Stages : SendCommand(s) \/ Recv(s) \/ NoAnswer(s))
    \/ SelfTestOfKeyboard \/ DriverUp
    \/ (\E k \in KeysTyped, released \in BOOLEAN : Type(k, released))
    \/ HandleInterrupt \/ Poll \/ WaitNextEvent

-----------------------------------------------------------------------------
EventsOf(t) == [n \in DOMAIN t.k |-> [key |-> KeyName(t.k[n].pre # 0, t.k[n].code),
                                      released |-> t.released]]
Known(s) == SelectSeq(s, LAMBDA e : e.key # "")

\* Key strokes come out of the device file as they were typed.  However the answers of
\* the controller and the keyboard were delayed, repeated or misread, a driver that came
\* up has the keyboard in scan code set 1 with its interrupt and clock on and translation
\* off.  If nothing was on its way at that moment, the known keys are seen in the order
\* typed, extended ones and releases included, the assertion on the prefix holds, and a
\* byte that waits in the controller always has its interrupt pending (otherwise no
\* further interrupt would come).
\* Nothing is lost between the handler and the shell but the events that met a full queue,
\* and each reaches the shell as the event it was.  No two codes share a key, and "no
\* event" is not the packed form of one.
KeysComeOutAsTyped ==
    /\ kb_pc \in {"up", "ready"} => kb_set = 1 /\ 0 \in kb_cfg /\ {4, 6} \cap kb_cfg = {}
    /\ kb_clean => /\ kb_pc = "ready" /\ (kb_obf # <<>> => kb_irq)
                   /\ IsPrefix(kb_seen, Known(FlattenSeq([n \in DOMAIN kb_typed |-> EventsOf(kb_typed[n])])))
    /\ LET kept == {n \in DOMAIN kb_seen : n \notin kb_lost}
           all == kb_handled \o kb_queue
       IN  /\ Len(all) = Cardinality(kept)
           /\ \A n \in kept : all[Cardinality({m \in kept : m <= n})] = kb_seen[n]
           /\ kb_lost # {} => Len(all) >= QUEUE_SIZE

ASSUME KeyTableIsInjective ==
    /\ \A a, b \in BOOLEAN : \A c, d \in 1..88 :
           KeyName(a, c) # "" /\ KeyName(a, c) = KeyName(b, d) => a = b /\ c = d
    /\ \A n \in DOMAIN Set1 : Set1[n] # "" => \E m \in DOMAIN KeyCodes : KeyCodes[m] = Set1[n]
=============================================================================
