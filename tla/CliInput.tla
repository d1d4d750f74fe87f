------------------------------ MODULE CliInput ------------------------------
(***************************************************************************)
(* The line editor of cli/cli_input.c (_cli_input_thread): the ring of     *)
(* s_cli_cmd_buf rows, one of which is edited while the others are the     *)
(* history that the arrow keys recall.  The rows are one stretch of        *)
(* memory, as in the program: what is written at the end of a full row     *)
(* falls on the first cell of the next one, and the string of a full row   *)
(* runs on into it.                                                        *)
(***************************************************************************)
EXTENDS Integers, Sequences, FiniteSets

CONSTANTS Chars,   \* printable characters
          ROWS,    \* CLI_CMD_BUF_ROW_NUM (16)
          SIZE,    \* CLI_CMD_BUF_SIZE (1028)
          MaxKeys  \* bound on the keys pressed

VARIABLES mem,     \* s_cli_cmd_buf, and the cell behind it, another variable's
          row,     \* ui4_cli_cmd_buf_row_idx
          ref,     \* ui4_cli_cmd_buf_ref_row_idx
          idx,     \* ui4_cli_cmd_buf_idx
          keys,    \* number of keys so far
          entered, \* the commands given to cli_parser, latest first
          recalled,\* how far up from the newest the arrow keys have gone
          spoilt   \* rows written from outside while another was edited; ROWS is what lies behind

ivars == <<mem, row, ref, idx, keys, entered, recalled, spoilt>>

NUL == "nul"
BEHIND == "behind"
At(r, i) == r * SIZE + i

\* cli_init and the start of _cli_input_thread.
IInit ==
    /\ mem = [p \in 0..(ROWS * SIZE) |-> IF p = ROWS * SIZE THEN BEHIND ELSE NUL]
    /\ row = 0 /\ ref = 0 /\ idx = 0 /\ keys = 0
    /\ entered = <<>> /\ recalled = 0 /\ spoilt = {}

\* The string at a row: up to the first NUL, which may be in a later row.  What lies
\* behind the array is not followed: the string ends there.
Str(m, r) ==
    LET ends == {p \in r * SIZE .. ROWS * SIZE : m[p] = NUL \/ p = ROWS * SIZE}
        stop == CHOOSE p \in ends : \A q \in ends : p <= q
    IN [i \in 1..(stop - r * SIZE) |-> m[At(r, i - 1)]]

Key == keys < MaxKeys /\ keys' = keys + 1

\* What is written at At(row, idx) belongs to the edited row or spoils another.
Inside  == At(row, idx) <= ROWS * SIZE
Touched == IF idx < SIZE THEN spoilt ELSE spoilt \union {At(row, idx) \div SIZE}

\* ui4_cli_cmd_buf_idx == CLI_CMD_BUF_SIZE takes no character.
HasRoom == idx # SIZE

\* A printable character.  After a full row has been recalled idx may be past the
\* guard: the character falls on a later row.
Printable(c) ==
    /\ Key /\ HasRoom /\ Inside /\ spoilt' = Touched
    /\ mem' = [mem EXCEPT ![At(row, idx)] = c]
    /\ idx' = idx + 1
    /\ UNCHANGED <<row, ref, entered, recalled>>

\* Backspace, or the left arrow.
Backspace ==
    /\ Key /\ idx > 0
    /\ idx' = idx - 1
    /\ UNCHANGED <<mem, row, ref, entered, recalled, spoilt>>

\* (row + 1) & (CLI_CMD_BUF_ROW_NUM - 1)
NextRow(r) == (r + 1) % ROWS

\* Enter: the row ends here, is given to cli_parser, and the next row, the
\* oldest one, is emptied for the next command.  (A line that begins with '~' is
\* decoded first, see CliArgs: no such line is typed here.)
Enter ==
    LET m == [mem EXCEPT ![At(row, idx)] = NUL]
        next == IF idx > 0 THEN NextRow(row) ELSE row
    IN /\ Key /\ Inside
       /\ mem' = IF idx > 0 THEN [m EXCEPT ![At(next, 0)] = NUL] ELSE m
       /\ row' = next /\ ref' = next /\ idx' = 0 /\ recalled' = 0
       /\ entered' = IF idx > 0 THEN <<Str(m, row)>> \o entered ELSE entered
       /\ spoilt' = IF idx > 0 THEN Touched \ {next} ELSE spoilt

\* Mutant of Older: a row back without skipping the empty ones.
OlderOne(m, r) == (r + ROWS - 1) % ROWS

\* The next row back, or on, that is not empty; it stops at the edited row.
Older(m, r) ==
    LET steps == {n \in 1..ROWS : LET q == (r + ROWS - n) % ROWS IN q = row \/ m[At(q, 0)] # NUL}
    IN (r + ROWS - (CHOOSE n \in steps : \A k \in steps : n <= k)) % ROWS

Newer(m, r) ==
    LET steps == {n \in 1..ROWS : LET q == (r + n) % ROWS IN q = row \/ m[At(q, 0)] # NUL}
    IN (r + (CHOOSE n \in steps : \A k \in steps : n <= k)) % ROWS

\* What is typed is dropped before a row is looked for.
Dropped == [mem EXCEPT ![At(row, 0)] = NUL]

\* The row found is copied over the edited one.
Recall(q, moved) ==
    LET copied == [p \in DOMAIN mem |-> IF p \in At(row, 0)..At(row, SIZE - 1)
                                        THEN Dropped[At(q, p - At(row, 0))] ELSE Dropped[p]]
    IN /\ Key
       /\ ref' = q
       /\ mem' = copied
       /\ idx' = Len(Str(copied, row))
       /\ recalled' = IF q = row THEN 0 ELSE moved
       /\ UNCHANGED <<row, entered, spoilt>>

\* Up after the oldest row starts again at the newest; down the other way.
KeyUp == Recall(Older(Dropped, ref), recalled + 1)
KeyDown ==
    LET oldest == IF Len(entered) < ROWS THEN Len(entered) ELSE ROWS - 1
    IN Recall(Newer(Dropped, ref), IF recalled = 0 THEN oldest ELSE recalled - 1)

INext ==
    \/ \E c \in Chars : Printable(c)
    \/ Backspace \/ Enter \/ KeyUp \/ KeyDown
    \/ keys = MaxKeys /\ UNCHANGED ivars

-----------------------------------------------------------------------------
\* The edited line leaves its row only when a command of SIZE characters or more, which has
\* no NUL of its own, is recalled and typed on; the cell behind the array is only
\* written when such a command has been entered.
EditInsideRow ==
    /\ spoilt \subseteq {ROWS} /\ idx > SIZE =>
          recalled \in 1..Len(entered) /\ Len(entered[recalled]) >= SIZE
    /\ mem[ROWS * SIZE] # BEHIND => \E n \in 1..Len(entered) : Len(entered[n]) >= SIZE

\* A row holds a command: all of it and its NUL, or as much as there is room for.
Holds(r, cmd) == IF Len(cmd) < SIZE THEN Str(mem, r) = cmd
                 ELSE \A i \in 1..SIZE : mem[At(r, i - 1)] = cmd[i]

\* The history is exact, full rows and recalled ones included: the rows before the
\* edited one hold the last commands entered, newest first, as long as the ring
\* goes round, but for a row that a line typed on from a recalled full row fell on.
HistoryExact ==
    \A n \in 1..(ROWS - 1) : LET r == (row + ROWS - n) % ROWS
                             IN  n <= Len(entered) /\ r \notin spoilt => Holds(r, entered[n])

\* After n arrow keys up from an empty line the row recalled is that of the n-th
\* last command, while no row was spoilt; beyond the oldest one it is empty.
RecallExact ==
    spoilt \subseteq {ROWS} /\ recalled > 0 /\ ref # row =>
        recalled <= Len(entered) /\ Holds(ref, entered[recalled])
=============================================================================
