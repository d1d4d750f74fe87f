------------------------------- MODULE MCCli -------------------------------
(* The command tables, the line editor and the splitting of a line for TLC.  *)
EXTENDS CliTable

\* cd, app, mw, setbaudrate; the applications' tables 10, 11 and 13 with
\* directories below, and a second table named 11, which
\* has an abbreviation.  The line of 13 does not fit
\* and 33 has no help.
MCCmds ==
    LET c(name, abbr, next, exec) ==
            [name |-> name, abbr |-> abbr, next |-> next, exec |-> exec, help |-> 5, hidden |-> FALSE]
    IN [at_mandatory |-> <<[c(1, NoAbbr, NULL, TRUE) EXCEPT !.hidden = TRUE]>>,
        at_app  |-> <<c(2, NoAbbr, NULL, FALSE)>>,
        at_mw   |-> <<c(3, NoAbbr, NULL, FALSE)>>,
        at_uart |-> <<c(4, 5, NULL, TRUE)>>,
        t10  |-> <<c(10, 20, <<"sub", 1>>, FALSE)>>,
        t11  |-> <<c(11, NoAbbr, <<"leaf", 1>>, TRUE)>>,
        t11b |-> <<c(11, 21, <<"sub", 1>>, FALSE)>>,
        t13  |-> <<[c(13, NoAbbr, NULL, TRUE) EXCEPT !.help = 30]>>,
        sub  |-> <<c(30, NoAbbr, NULL, TRUE), c(31, NoAbbr, <<"leaf", 1>>, FALSE),
                   [c(33, NoAbbr, NULL, TRUE) EXCEPT !.help = NoHelp], c(34, NoAbbr, NULL, TRUE)>>,
        leaf |-> <<c(32, NoAbbr, <<"sub", 1>>, TRUE)>>]

MCPaths == {<<2>>, <<10>>, <<2, 10, 31>>, <<2, 11, 30>>, <<32>>, <<31>>, <<UpDir>>, <<UpDir, UpDir>>, <<RootDir, 2>>}

VARIABLES part, mem, row, ref, idx, keys, entered, recalled, spoilt, line

I == INSTANCE CliInput WITH Chars <- {"a", "b"}, ROWS <- 4, SIZE <- 2, MaxKeys <- 13
\* Numbers have 8 bits instead of 32: two hexadecimal digits, three decimal ones.
A == INSTANCE CliArgs WITH ARG_NUM <- 3, ARG_LEN <- 4, WORD <- 256, HEX_LEN <- 2, DEC_LEN <- 3,
                           Rates <- {9, 96, 115, 230}, DEFAULT <- 115

ivars == <<mem, row, ref, idx, keys, entered, recalled, spoilt>>
allvars == <<part, cvars, ivars, line>>

\* A line of the third part grows up to five characters.
Grow == part = "line" /\ Len(line) < 5 /\ \E c \in A!Char : line' = Append(line, c)

MCInit == part \in {"tables", "editor", "line"} /\ CInit /\ I!IInit /\ line = <<>>
MCNext ==
    \/ part = "tables" /\ CNext /\ UNCHANGED <<part, ivars, line>>
    \/ part = "editor" /\ I!INext /\ UNCHANGED <<part, cvars, line>>
    \/ Grow /\ UNCHANGED <<part, cvars, ivars>>
    \/ part = "line" /\ Len(line) = 5 /\ UNCHANGED allvars
MCSpec == MCInit /\ [][MCNext]_allvars

\* See CliTable: whatever is attached and detached, the directory is one of the
\* tables it came through, the two arrays of a category stay aligned, a category
\* with tables can be entered, a dotted path and cd lead to the same command, and
\* the prompt and the listing show the directory that the search uses.
DirectoryExact == /\ DirectoryConsistent /\ GroupsAligned /\ CategoryEnterable
                  /\ part = "tables" => PathAgreesWithCd /\ PromptLeadsHere /\ ListAgreesWithSearch
\* See CliInput and CliArgs: the edited line stays in its row, the rows before it
\* are the last commands and the arrow keys recall them in their order;
\* splitting a line keeps its letters and the buffers' limits, a level shown and
\* a number given are read back, and a coded command has one meaning per text.
LinesExact == /\ I!EditInsideRow /\ I!HistoryExact /\ I!RecallExact
              /\ part = "line" => A!SplitKeepsText(line)
              /\ part = "line" /\ Len(line) = 0 =>
                   A!LevelReadBack /\ A!NumbersReadBack /\ \A key \in 33..125 : A!DecryptIsCode(key)
=============================================================================
