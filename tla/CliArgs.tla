------------------------------ MODULE CliArgs ------------------------------
(***************************************************************************)
(* How a command line is split into arguments (_find_cmd_argv of           *)
(* cli/cli_parser.c) and how a debug level is read and shown               *)
(* (u_cli_parse_dbg_level, u_cli_show_dbg_level of cli/cli_cmd.c): pure    *)
(* functions of a line, which is a sequence of kinds of characters.  And   *)
(* how the number of setbaudrate is read (_str2int), and a command that    *)
(* begins with '~' decoded (_cli_decrypt_cmd of cli/cli_input.c).          *)
(***************************************************************************)
EXTENDS Integers, Sequences, SequencesExt, FiniteSets

CONSTANTS ARG_NUM,  \* CLI_MAX_ARG_NUM (64)
          ARG_LEN,  \* CLI_MAX_ARG_LEN (256)
          WORD,     \* 2^32, what a UINT32 wraps at
          HEX_LEN,  \* its digits in base 16 (8)
          DEC_LEN,  \* and in base 10 (10)
          Rates,    \* the baud rates that setbaudrate knows
          DEFAULT   \* B115200

\* A letter, another one, a space, a control character, the two quotes, '#'.
Char == {"x", "y", "sp", "ctl", "sgl", "dbl", "#"}
NUL == "nul"

IS_PRINTABLE(c) == c # "ctl"
IS_SPACE(c) == c = "sp"
Get(line, p) == IF p <= Len(line) THEN line[p] ELSE NUL

\* ui4_cmd_idx >= ui4_argv_len - 1
Full(n) == n >= ARG_LEN - 1

\* One argument from position p on, n characters of which are read: the quote
\* that is open is skipped and, closed, ends the argument.
RECURSIVE Word(_, _, _, _, _)
Word(line, p, n, quote, text) ==
    LET c == Get(line, p)
        ends == \/ ~IS_PRINTABLE(c) \/ (quote = "none" /\ IS_SPACE(c)) \/ c = quote
                \/ c = NUL \/ Full(n)
        opens == quote = "none" /\ c \in {"sgl", "dbl"}
    IN IF ends THEN [p |-> p, n |-> n, text |-> text]
       ELSE IF opens THEN Word(line, p + 1, n + 1, c, text)
       ELSE Word(line, p + 1, n + 1, quote, Append(text, c))

RECURSIVE SkipSpaces(_, _)
SkipSpaces(line, p) ==
    IF ~IS_PRINTABLE(Get(line, p)) \/ IS_SPACE(Get(line, p)) THEN SkipSpaces(line, p + 1) ELSE p

\* A quote where the argument ended is read over.
AfterQuote(line, w) ==
    IF Get(line, w.p) \in {"sgl", "dbl"} THEN [w EXCEPT !.p = @ + 1, !.n = @ + 1] ELSE w

RECURSIVE _find_cmd_argv(_, _, _)
_find_cmd_argv(line, p, argv) ==
    IF Get(line, p) \in {NUL, "#"} \/ Len(argv) >= ARG_NUM THEN argv
    ELSE LET w == AfterQuote(line, Word(line, SkipSpaces(line, p), 0, "none", <<>>))
         IN _find_cmd_argv(line, w.p, IF w.n > 0 THEN Append(argv, w.text) ELSE argv)

Argv(line) == _find_cmd_argv(line, 1, <<>>)

-----------------------------------------------------------------------------
\* Letters of a level: error, api, info, none; anything else is "?".
Level == [e |-> "ERROR", a |-> "API", i |-> "INFO"]
None == <<"n", "?", "n", "e">>        \* CLI_NONE_STR

\* u_cli_parse_dbg_level: the bits and whether the text is valid.
u_cli_parse_dbg_level(text) ==
    IF Len(text) > 1 /\ "n" \in Range(text) THEN [ret |-> "CLIR_INV_ARG", level |-> {}]
    ELSE [ret |-> IF "?" \in Range(text) THEN "CLIR_INV_ARG" ELSE "CLIR_OK",
          level |-> {Level[c] : c \in Range(text) \ {"n", "?"}}]

u_cli_show_dbg_level(level) ==
    LET shown == SelectSeq(<<"e", "a", "i">>, LAMBDA c : Level[c] \in level)
    IN IF shown = <<>> THEN None ELSE shown

-----------------------------------------------------------------------------
\* A number is a sequence of digits 0 to 15; "x" and any other character are X
\* and BAD.
X == 16
BAD == 17

\* The digits are shifted in one after the other, modulo 2^32; a character that
\* is no digit makes the whole number 0.
Digits(text, base) ==
    LET f[i \in Nat, value \in Int] ==
            IF i > Len(text) THEN value
            ELSE IF text[i] >= base THEN 0
            ELSE f[i + 1, (value * base + text[i]) % WORD]
    IN  f[1, 0]

\* u4Len is cut to what fits.
Cut(text, n) == SubSeq(text, 1, IF Len(text) > n THEN n ELSE Len(text))

_str2hex(text) == Digits(Cut(text, HEX_LEN), 16)

_str2dec(text) == Digits(Cut(text, DEC_LEN), 10)

\* "0x" and something behind it is hexadecimal.
_str2int(text) ==
    IF Len(text) > 2 /\ text[1] = 0 /\ text[2] = X THEN _str2hex(SubSeq(text, 3, Len(text))) ELSE _str2dec(text)

\* setbaudrate: the rate that is set; a rate it does not know is the default.
_cli_cmd_uart0_set_baudrate(text) ==
    LET rate == _str2int(text) IN IF rate \in Rates THEN rate ELSE DEFAULT

-----------------------------------------------------------------------------
(* Coded commands: '~', a text and a key.  Characters are their codes; 45 to *)
(* 90 ('-' to 'Z') are a ring of 46.                                         *)

TILDE == 126
_tolower(c) == IF c \in 65..90 THEN c + 32 ELSE c
_toupper(c) == IF c \in 97..122 THEN c - 32 ELSE c

\* c, key % 46 places back on the ring.
_go_back_along_alp(c, key) ==
    LET k == key % 46 IN IF c - k < 45 THEN 90 - (k - (c - 45 + 1)) ELSE c - k

_cli_is_encrypt_cmd(cmd) == cmd # <<>> /\ cmd[1] = TILDE

\* A small letter of the text stands for the code 38 below it.  Each character is
\* decoded with the one before it as key, the first with the last of the line;
\* '-' and ':' then stand for ' ' and '_'.  cmd has '~' and a key at least.
_cli_decrypt_cmd(cmd) ==
    LET n == Len(cmd) - 2
        in(i) == IF cmd[i + 1] \in 97..122 THEN cmd[i + 1] - 38 ELSE cmd[i + 1]
        key(i) == IF i = 1 THEN _tolower(cmd[n + 2]) ELSE in(i - 1)
        out(i) == _tolower(_go_back_along_alp(_toupper(in(i)), key(i)))
    IN [i \in 1..n |-> CASE out(i) = 45 -> 32 [] out(i) = 58 -> 95 [] OTHER -> out(i)]

-----------------------------------------------------------------------------
Letters(s) == SelectSeq(s, LAMBDA c : c \in {"x", "y"})

\* Splitting a line keeps within the argument buffers (no more arguments than
\* rows of as_argv, none longer than a row with its NUL), and loses, doubles
\* or reorders no letter, however quotes, separators and overlong arguments
\* are mixed: only '#' at the start of an argument, or too many arguments, end
\* it early.
SplitKeepsText(line) ==
    LET argv == Argv(line)
        text == Letters(FlattenSeq(argv))
    IN /\ Len(argv) <= ARG_NUM
       /\ \A n \in DOMAIN argv : Len(argv[n]) <= ARG_LEN - 1
       /\ IsPrefix(text, Letters(line))
       /\ Len(argv) < ARG_NUM /\ "#" \notin Range(line) => text = Letters(line)

\* The level that u_cli_show_dbg_level shows is read back as the same level
\* ("none" is shown for no level, but only "n" is read so).
LevelReadBack ==
    \A level \in SUBSET {"ERROR", "API", "INFO"} \ {{}} :
        u_cli_parse_dbg_level(u_cli_show_dbg_level(level)) = [ret |-> "CLIR_OK", level |-> level]

\* The notation of v in a base with at least n digits.
Notation(v, base, n) ==
    LET f[w \in Nat, k \in Int] == IF w = 0 /\ k <= 0 THEN <<>> ELSE Append(f[w \div base, k - 1], w % base)
    IN  f[v, n]

\* A number up to the largest UINT32, decimal or hexadecimal, with as many
\* leading zeros as the largest one has digits, is read as itself, and
\* setbaudrate sets it if it is one of its rates; anything with a character
\* that is no digit where it is read counts as 0 and sets the default.
NumbersReadBack ==
    \A v \in 0..(WORD - 1) :
        /\ \A n \in 1..DEC_LEN :
             /\ _str2int(Notation(v, 10, n)) = v
             /\ _cli_cmd_uart0_set_baudrate(Notation(v, 10, n)) = IF v \in Rates THEN v ELSE DEFAULT
        /\ \A n \in 1..HEX_LEN :
             /\ _str2int(<<0, X>> \o Notation(v, 16, n)) = v
             /\ \A i \in 1..Len(Notation(v, 16, n)) :
                  _str2int(<<0, X>> \o [Notation(v, 16, n) EXCEPT ![i] = BAD]) = 0

\* What a decoded command may consist of: small letters, digits, ' ', '_', '.', '/'
\* and ';' to '@'.
Plain == (97..122) \union (48..57) \union {32, 95, 46, 47} \union (59..64)

\* Decoding loses nothing: whatever the key, every command of plain characters is
\* the meaning of exactly one text on the ring, so that it can be coded, and each
\* text means a plain command that is two characters shorter than the line.
DecryptIsCode(key) ==
    /\ \A c \in 45..90, d \in 45..90 :
         LET cmd == <<TILDE, c, d, key>>
             text == _cli_decrypt_cmd(cmd)
         IN _cli_is_encrypt_cmd(cmd) /\ Len(text) = Len(cmd) - 2 /\ Range(text) \subseteq Plain
    /\ {_cli_decrypt_cmd(<<TILDE, c, key>>)[1] : c \in 45..90} = Plain
    /\ \A c \in 45..90 : {_cli_decrypt_cmd(<<TILDE, c, d, key>>)[2] : d \in 45..90} = Plain
    /\ Cardinality(Plain) = 46
=============================================================================
