---------------------------------- MODULE Cli ----------------------------------
(***************************************************************************)
(* The two tasks of system/cli/cli.c over the line editor of               *)
(* middleware/embedded-cli: cli_io_read_task puts characters into a ring   *)
(* (embeddedCliReceiveChar), cli_process_task takes them out, edits the    *)
(* line and runs commands (embeddedCliProcess).  They have one priority,   *)
(* no lock, and a byte of flags that both read, change and write.  In the  *)
(* ring characters are told apart; what one means to the editor is chosen  *)
(* when it is edited, so that every input is covered.  Of the line its     *)
(* size and cursor are kept; what it says, the history and what commands   *)
(* do are left out: a key may complete or replace the line with any line.  *)
(***************************************************************************)
EXTENDS Naturals, Sequences

CONSTANTS
  Chars,        \* characters in the ring
  RxSize,       \* rxBufferSize: places of the ring, one of which stays free
  CmdMax        \* cmdBufferSize

CliAssumption == /\ RxSize \in Nat \ {0, 1} /\ CmdMax \in Nat /\ CmdMax > 2
                 /\ Chars # {}

VARIABLES
  rx, front, back,      \* rxBuffer
  flags,                \* overflow, escape and direct print
  cmdSize, cursorPos,   \* the line; the cursor counts from its end
  lastEsc,              \* lastChar is ESC
  reader, got, old,     \* where the reading task is; its character; the flags it read
  process, taken, seen, \* where the processing task is; likewise
  pending,              \* history: the characters put in and not taken out
  lost                  \* history: a character found the ring full

ring == <<rx, front, back>>
line == <<cmdSize, cursorPos, lastEsc>>
receiver == <<reader, got, old>>
vars == <<ring, flags, line, receiver, process, taken, seen, pending, lost>>

Flags == {"overflow", "escape", "direct"}
Kinds == {"enter", "backspace", "tab", "esc", "[", "up", "left", "right", "other"}

\* The letters among them: the last character of the cursor keys is one.
Displayable == {"[", "up", "left", "right", "other"}

\* The sizes that a line can have (two bytes are kept for its end).
Sizes == 0..(CmdMax - 2)
-----------------------------------------------------------------------------
(* Plausible mistakes in the steps below. *)

\* A full ring takes one character more.
PushUnchecked ==
  /\ reader = "push"
  /\ rx' = [rx EXCEPT ![back] = got]
  /\ reader' = "advance"
  /\ UNCHANGED <<front, back, flags, line, got, old, process, taken, seen, pending, lost>>

\* The cursor stays where it is when the line is replaced.
ReplaceLine(n) == cmdSize' = n /\ UNCHANGED cursorPos
-----------------------------------------------------------------------------
(* cli_io_read_task: embeddedCliReceiveChar, fifoBufPush.                  *)

Receive(c) == /\ reader = "idle"
              /\ got' = c
              /\ reader' = "push"
              /\ UNCHANGED <<ring, flags, line, old, process, taken, seen, pending, lost>>

\* A character is stored before the end of the ring moves over it; one that finds
\* the ring full is dropped, and the flags are read to be set.
Push == /\ reader = "push"
        /\ \/ /\ (back + 1) % RxSize # front
              /\ rx' = [rx EXCEPT ![back] = got]
              /\ reader' = "advance" /\ UNCHANGED <<old, lost>>
           \/ /\ (back + 1) % RxSize = front
              /\ lost' = TRUE
              /\ old' = flags /\ reader' = "flag" /\ UNCHANGED rx
        /\ UNCHANGED <<front, back, flags, line, got, process, taken, seen, pending>>

Advance == /\ reader = "advance"
           /\ back' = (back + 1) % RxSize
           /\ pending' = Append(pending, got)
           /\ reader' = "idle"
           /\ UNCHANGED <<rx, front, flags, line, got, old, process, taken, seen, lost>>

\* SET_FLAG writes what it read, with the overflow added.
SetOverflow == /\ reader = "flag"
               /\ flags' = old \cup {"overflow"}
               /\ reader' = "idle" /\ old' = {}
               /\ UNCHANGED <<ring, line, got, process, taken, seen, pending, lost>>
-----------------------------------------------------------------------------
(* The line editor; each operator says what becomes of size and cursor.    *)

\* A line that is completed, or replaced by one of the history.
SetLine(n) == cmdSize' = n /\ cursorPos' = 0

\* onCharInput: the character goes in before the cursor.  A cursor before the line
\* makes the code write before its buffer, and nothing is defined from there on.
onCharInput == /\ cursorPos <= cmdSize
               /\ cmdSize' = IF cmdSize + 2 >= CmdMax THEN cmdSize ELSE cmdSize + 1
               /\ UNCHANGED cursorPos

\* onAutocompleteRequest: no command begins like the line, the line is completed, or
\* the commands that do are listed.
onAutocompleteRequest == \/ UNCHANGED <<cmdSize, cursorPos>>
                         \/ cmdSize > 0 /\ \E n \in Sizes : n >= cmdSize /\ SetLine(n)

onBackspace == /\ cmdSize' = IF cmdSize > cursorPos THEN cmdSize - 1 ELSE cmdSize
               /\ UNCHANGED cursorPos

\* navigateHistory, which may be at its end, and the cursor keys.
onEscapedInput(kind) ==
  \/ kind = "up" /\ \E n \in Sizes : SetLine(n)
  \/ kind \in {"up", "other", "["} /\ UNCHANGED <<cmdSize, cursorPos>>
  \/ /\ kind = "right"
     /\ cursorPos' = IF cursorPos > 0 THEN cursorPos - 1 ELSE 0
     /\ UNCHANGED cmdSize
  \/ /\ kind = "left"
     /\ cursorPos' = IF cursorPos < cmdSize THEN cursorPos + 1 ELSE cursorPos
     /\ UNCHANGED cmdSize
-----------------------------------------------------------------------------
(* cli_process_task: embeddedCliProcess.                                   *)

Goto(l) == process' = l

\* What reads the flags in order to change them, and what writes them.
ReadFlags == seen' = flags
WriteFlags(f) == flags' = f /\ seen' = {}

\* The loop ends when the ring is empty.
Take == /\ process = "loop"
        /\ \/ front # back /\ taken' = rx[front] /\ Goto("taken")
           \/ front = back /\ Goto("check") /\ UNCHANGED taken
        /\ UNCHANGED <<ring, flags, line, receiver, seen, pending, lost>>

Pop == /\ process = "taken"
       /\ front' = (front + 1) % RxSize
       /\ Goto("edit")
       /\ pending' = Tail(pending)
       /\ UNCHANGED <<rx, back, flags, line, receiver, taken, seen, lost>>

\* In an escape sequence only its last character counts.
InSequence(kind) ==
  /\ "escape" \in flags
  /\ \/ kind \in Displayable /\ ReadFlags /\ Goto("escaped")
     \/ kind \notin Displayable /\ Goto("loop") /\ UNCHANGED seen
  /\ UNCHANGED <<cmdSize, cursorPos>>

BeginSequence(kind) == /\ "escape" \notin flags /\ lastEsc /\ kind = "["
                       /\ ReadFlags /\ Goto("escape")
                       /\ UNCHANGED <<cmdSize, cursorPos>>

EditLine(kind) ==
  /\ "escape" \notin flags /\ ~(lastEsc /\ kind = "[")
  /\ \/ kind \in Displayable /\ onCharInput
     \/ kind = "backspace" /\ onBackspace
     \/ kind \in {"tab", "enter"} /\ onAutocompleteRequest
     \/ kind = "esc" /\ UNCHANGED <<cmdSize, cursorPos>>
  /\ Goto(IF kind = "enter" THEN "enter" ELSE "loop")
  /\ UNCHANGED seen

Edit == /\ process = "edit"
        /\ \E kind \in Kinds :
             /\ InSequence(kind) \/ BeginSequence(kind) \/ EditLine(kind)
             /\ lastEsc' = (kind = "esc")
        /\ UNCHANGED <<ring, flags, receiver, taken, pending, lost>>

Escape == /\ process = "escape"
          /\ WriteFlags(seen \cup {"escape"})
          /\ Goto("loop")
          /\ UNCHANGED <<ring, line, receiver, taken, pending, lost>>

Escaped == /\ process = "escaped"
           /\ WriteFlags(seen \ {"escape"})
           /\ \E kind \in Displayable : onEscapedInput(kind)
           /\ Goto("loop")
           /\ UNCHANGED <<ring, lastEsc, receiver, taken, pending, lost>>

\* parseCommand: an empty line, a blank one and an unknown command run nothing.
Enter == /\ process = "enter"
         /\ \/ cmdSize > 0 /\ ReadFlags /\ Goto("start") /\ UNCHANGED <<cmdSize, cursorPos>>
            \/ SetLine(0) /\ Goto("loop") /\ UNCHANGED seen
         /\ UNCHANGED <<ring, flags, lastEsc, receiver, taken, pending, lost>>

Start == /\ process = "start"
         /\ WriteFlags(seen \cup {"direct"})
         /\ Goto("run")
         /\ UNCHANGED <<ring, line, receiver, taken, pending, lost>>

\* The command takes its time.
Run == /\ process = "run"
       /\ ReadFlags
       /\ Goto("ran")
       /\ UNCHANGED <<ring, flags, line, receiver, taken, pending, lost>>

Ran == /\ process = "ran"
       /\ WriteFlags(seen \ {"direct"})
       /\ SetLine(0)
       /\ Goto("loop")
       /\ UNCHANGED <<ring, lastEsc, receiver, taken, pending, lost>>

\* After the loop an overflow discards the line, and leaves the cursor.
Check == /\ process = "check"
         /\ \/ "overflow" \in flags /\ cmdSize' = 0 /\ ReadFlags /\ Goto("discard")
            \/ "overflow" \notin flags /\ Goto("loop") /\ UNCHANGED <<cmdSize, seen>>
         /\ UNCHANGED <<ring, flags, cursorPos, lastEsc, receiver, taken, pending, lost>>

Discard == /\ process = "discard"
           /\ WriteFlags(seen \ {"overflow"})
           /\ Goto("loop")
           /\ UNCHANGED <<ring, line, receiver, taken, pending, lost>>
-----------------------------------------------------------------------------
\* embeddedCliNew clears its buffers.
Cleared == CHOOSE c \in Chars : TRUE

Init ==
  /\ rx = [i \in 0..(RxSize - 1) |-> Cleared] /\ got = Cleared /\ taken = Cleared
  /\ front = 0 /\ back = 0 /\ flags = {}
  /\ cmdSize = 0 /\ cursorPos = 0 /\ lastEsc = FALSE
  /\ reader = "idle" /\ old = {} /\ process = "loop" /\ seen = {}
  /\ pending = <<>> /\ lost = FALSE

Read == (\E c \in Chars : Receive(c)) \/ Push \/ Advance \/ SetOverflow

Process == \/ Take \/ Pop \/ Edit \/ Escape \/ Escaped \/ Enter \/ Start \/ Run \/ Ran
           \/ Check \/ Discard

Next == Read \/ Process

Spec == Init /\ [][Next]_vars
-----------------------------------------------------------------------------
(* Properties.                                                             *)

\* The type of every variable.
TypeOK ==
  /\ rx \in [0..(RxSize - 1) -> Chars] /\ front \in 0..(RxSize - 1) /\ back \in 0..(RxSize - 1)
  /\ {flags, old, seen} \subseteq SUBSET Flags
  /\ cmdSize \in Sizes /\ cursorPos \in Sizes /\ lastEsc \in BOOLEAN
  /\ reader \in {"idle", "push", "advance", "flag"}
  /\ process \in {"loop", "taken", "edit", "escape", "escaped", "enter", "start", "run",
                  "ran", "check", "discard"}
  /\ {got, taken} \subseteq Chars /\ pending \in Seq(Chars) /\ lost \in BOOLEAN

\* embedded_cli.h:1503-1527: without a lock between its two tasks the ring holds the
\* characters that were put in and not yet taken out, in order, at every step of a
\* push and a pop, full or not; and the character being taken is the oldest.
InOrder ==
  /\ Len(pending) = (back + RxSize - front) % RxSize
  /\ \A i \in 1..Len(pending) : pending[i] = rx[(front + i - 1) % RxSize]
  /\ process = "taken" => taken = Head(pending)

\* embedded_cli.h:521-524 says of cursorPos: "Cursor position for current command from
\* right to left", where 0 is the end of the command: it is a position of the line.
CursorInCommand == cursorPos <= cmdSize

\* So it is until a character was lost, whatever keys move, replace or complete the line.
CursorKept == ~lost => CursorInCommand
=============================================================================
