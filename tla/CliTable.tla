------------------------------ MODULE CliTable ------------------------------
(***************************************************************************)
(* The command tables of cli/cli_parser.c: attaching and detaching tables  *)
(* (cli_parser_attach_cmd_tbl, cli_parser_detach_cmd_tbl), the current     *)
(* directory (_cli_cmd_change_dir) with its prompt and its listing         *)
(* (_generate_prompt, _cli_cmd_list_cmd), and the search for a command by  *)
(* its dotted path (_parse_cmd).                                           *)
(*                                                                         *)
(* A pointer to a CLI_EXEC_T is <<table, index>>, NULL is <<>>; a pointer  *)
(* to a table is one to its first command.  Names are numbers, compared    *)
(* by strcmp as their difference.  The callers' threads do not lock the    *)
(* tables: an attach or a command is one step here.                        *)
(***************************************************************************)
EXTENDS Integers, Sequences, SequencesExt, FiniteSets

CONSTANTS Cmds,        \* the tables: sequences of [name, abbr, next, exec, help, hidden],
                       \* where help is the help string's length
          NAME_LEN,    \* the length of a name or an abbreviation
          CMD_SIZE,    \* CLI_CMD_BUF_SIZE (1028), the room for the prompt
          STR_LEN,     \* MAX_STR_LEN (128), the room for a line of ls
          AppTables,   \* tables that applications attach to CLI_CAT_APP
          MAX_TBL,     \* CLI_MAX_CMD_TBL_NUM (128)
          MAX_LEVEL,   \* CLI_MAX_CMD_TBL_LEVEL (8)
          Masks,       \* group masks
          Paths        \* arguments of the command cd

VARIABLES apt_cli_array,        \* per category, the attached tables
          at_cli_mod_grp_info,  \* per category, [tbl, mask] of each of them
          pt_next_level,        \* of at_app_cmd_tbl and at_mw_cmd_tbl
          apt_dir_link,         \* the directories above and at the current one
          pt_cur_cmd_tbl, b_is_cmd_tbl,
          ps_cli_prompt_str,    \* the words of the prompt
          crash                 \* strcmp was given NULL: nothing is followed after it

cvars == <<apt_cli_array, at_cli_mod_grp_info, pt_next_level, apt_dir_link,
           pt_cur_cmd_tbl, b_is_cmd_tbl, ps_cli_prompt_str, crash>>

NULL == <<>>
NoAbbr == 0
NoHelp == 0
UpDir == -1            \* ".." in an argument of cd
RootDir == -2          \* "/"
Err(code) == <<code, 0>>
Categories == {"ROOT", "APP", "MW"}
CatEntry == [APP |-> <<"at_app", 1>>, MW |-> <<"at_mw", 1>>]
FixedTables == <<"at_mandatory", "at_app", "at_mw", "at_uart">>

Cmd(p) == Cmds[p[1]][p[2]]
Next_level(p) == IF p = CatEntry.APP THEN pt_next_level.APP
                 ELSE IF p = CatEntry.MW THEN pt_next_level.MW ELSE Cmd(p).next
Ptr(tbl) == <<tbl, 1>>

\* "Command>": no directory.
_cli_set_cli_prompt == <<>>

\* cli_parser_clear_cmd_tbl, _cli_parser_init.
CInit ==
    /\ apt_cli_array = [c \in Categories |-> IF c = "ROOT" THEN FixedTables ELSE <<>>]
    /\ at_cli_mod_grp_info =
         [c \in Categories |-> [n \in DOMAIN apt_cli_array[c] |-> [tbl |-> apt_cli_array[c][n], mask |-> 0]]]
    /\ pt_next_level = [APP |-> NULL, MW |-> NULL]
    /\ apt_dir_link = <<>>
    /\ pt_cur_cmd_tbl = NULL /\ b_is_cmd_tbl = FALSE /\ ps_cli_prompt_str = _cli_set_cli_prompt
    /\ crash = FALSE

strcmp(x, y) == Cmd(Ptr(x)).name - Cmd(Ptr(y)).name

SameName(x, y) == strcmp(x, y) = 0
SameAbbr(x, y) == Cmd(Ptr(x)).abbr = Cmd(Ptr(y)).abbr

\* The first table of the same name is the one to replace, if it has no
\* abbreviation or the same one.
Named(cat, tbl) ==
    LET same == {n \in DOMAIN apt_cli_array[cat] : SameName(tbl, apt_cli_array[cat][n])}
    IN IF same = {} THEN {} ELSE {Min(same)}

Abbr(cat, n) == Cmd(Ptr(apt_cli_array[cat][n])).abbr
Replaced(cat, tbl) == {n \in Named(cat, tbl) : Abbr(cat, n) = NoAbbr \/ SameAbbr(tbl, apt_cli_array[cat][n])}

\* A table without abbreviation is compared with one that has one: strcmp(NULL, ...).
NullAbbr(cat, tbl) == Cmd(Ptr(tbl)).abbr = NoAbbr /\ \E n \in Named(cat, tbl) : Abbr(cat, n) # NoAbbr

\* Where a new table goes: before the first one whose name is the next one (the
\* code compares strcmp's result with -1), else at the end.
Place(cat, tbl) ==
    LET before == {n \in DOMAIN apt_cli_array[cat] : strcmp(tbl, apt_cli_array[cat][n]) = -1}
    IN IF before = {} THEN Len(apt_cli_array[cat]) + 1 ELSE Min(before)

\* pt_next_level of the category's command follows what is inserted first.
FirstSet(cat, n, tbl) ==
    IF n = 1 /\ cat # "ROOT" THEN [pt_next_level EXCEPT ![cat] = Ptr(tbl)] ELSE pt_next_level

\* Mutant of GroupInserted: the mask goes to the end although the table does not.
GroupInsertedLast(cat, n, tbl, mask) ==
    Append(at_cli_mod_grp_info[cat], [tbl |-> tbl, mask |-> mask])

GroupInserted(cat, n, tbl, mask) ==
    InsertAt(at_cli_mod_grp_info[cat], n, [tbl |-> tbl, mask |-> mask])

cli_parser_attach_cmd_tbl(tbl, cat, mask) ==
    /\ Len(apt_cli_array[cat]) < MAX_TBL          \* else CLIR_CMD_TBL_FULL
    /\ crash' = NullAbbr(cat, tbl)
    /\ LET same == Replaced(cat, tbl)
           n == IF same # {} THEN Min(same) ELSE Place(cat, tbl)
       IN IF crash' THEN UNCHANGED <<apt_cli_array, at_cli_mod_grp_info, pt_next_level>>
          ELSE IF same # {}
          THEN /\ apt_cli_array' = [apt_cli_array EXCEPT ![cat][n] = tbl]
               /\ at_cli_mod_grp_info' = [at_cli_mod_grp_info EXCEPT ![cat][n] = [tbl |-> tbl, mask |-> mask]]
               /\ UNCHANGED pt_next_level
          ELSE /\ apt_cli_array' = [apt_cli_array EXCEPT ![cat] = InsertAt(@, n, tbl)]
               /\ at_cli_mod_grp_info' = [at_cli_mod_grp_info EXCEPT ![cat] = GroupInserted(cat, n, tbl, mask)]
               /\ pt_next_level' = FirstSet(cat, n, tbl)
    /\ UNCHANGED <<apt_dir_link, pt_cur_cmd_tbl, b_is_cmd_tbl, ps_cli_prompt_str>>

\* Detached is the entry with the caller's table and mask; the later ones move
\* down.  pt_next_level stays as it is.
cli_parser_detach_cmd_tbl(tbl, cat, mask) ==
    LET found == {n \in DOMAIN apt_cli_array[cat] :
                    /\ SameName(tbl, apt_cli_array[cat][n]) /\ SameAbbr(tbl, apt_cli_array[cat][n])
                    /\ at_cli_mod_grp_info[cat][n] = [tbl |-> tbl, mask |-> mask]}
    IN /\ found # {}                              \* else CLIR_CMD_NOT_FOUND
       /\ apt_cli_array' = [apt_cli_array EXCEPT ![cat] = RemoveAt(@, Min(found))]
       /\ at_cli_mod_grp_info' = [at_cli_mod_grp_info EXCEPT ![cat] = RemoveAt(@, Min(found))]
       /\ UNCHANGED <<pt_next_level, apt_dir_link, pt_cur_cmd_tbl, b_is_cmd_tbl, ps_cli_prompt_str, crash>>

-----------------------------------------------------------------------------
_is_cmd_tbl_array(p) == p = NULL \/ Cmd(p).name \in {Cmd(CatEntry.APP).name, Cmd(CatEntry.MW).name}

\* The tables of the root, of app or of mw.
_get_cmd_tbl_array(p, skip) ==
    CASE p = NULL -> IF skip THEN Tail(apt_cli_array["ROOT"]) ELSE apt_cli_array["ROOT"]
      [] p # NULL /\ Cmd(p).name = Cmd(CatEntry.APP).name -> apt_cli_array["APP"]
      [] OTHER -> apt_cli_array["MW"]

\* The first command of a table with a name or an abbreviation.
_search_tbl(name, p) ==
    LET hits == {i \in DOMAIN Cmds[p[1]] : i >= p[2] /\ name \in {Cmds[p[1]][i].name, Cmds[p[1]][i].abbr}}
    IN IF p = NULL \/ hits = {} THEN NULL ELSE <<p[1], Min(hits)>>

SearchArray(name, tables) ==
    LET hits == {n \in DOMAIN tables : _search_tbl(name, Ptr(tables[n])) # NULL}
    IN IF hits = {} THEN NULL ELSE _search_tbl(name, Ptr(tables[Min(hits)]))

\* _parse_cmd: what a dotted path with argc - 1 arguments leads to.
RECURSIVE _parse_cmd(_, _, _)
_parse_cmd(argc, path, p) ==
    LET e == IF _is_cmd_tbl_array(p) THEN SearchArray(Head(path), _get_cmd_tbl_array(p, FALSE))
             ELSE _search_tbl(Head(path), p)
        last == Len(path) = 1
    IN CASE e = NULL -> Err("CLIR_CMD_NOT_FOUND")
         [] e # NULL /\ Next_level(e) = NULL /\ ~Cmd(e).exec ->
              IF _is_cmd_tbl_array(e) THEN Err("CLIR_CMD_NOT_FOUND") ELSE Err("CLIR_INV_CMD_TBL")
         [] e # NULL /\ Cmd(e).exec /\ (Next_level(e) = NULL \/ (last /\ argc > 1)) -> e
         [] e # NULL /\ Next_level(e) # NULL /\ last /\ ~(Cmd(e).exec /\ argc > 1) ->
              IF argc = 1 THEN Err("CLIR_INV_CMD_USAGE") ELSE Err("CLIR_CMD_NOT_FOUND")
         [] OTHER -> _parse_cmd(argc, Tail(path), IF _is_cmd_tbl_array(e) THEN e ELSE Next_level(e))

\* cli_parser: the mandatory commands first, then the current directory.
cli_parser(argc, path) ==
    LET r == _parse_cmd(argc, path, Ptr("at_mandatory"))
    IN IF r # Err("CLIR_CMD_NOT_FOUND") THEN r ELSE _parse_cmd(argc, path, pt_cur_cmd_tbl)

-----------------------------------------------------------------------------
(* cd: the words of its path one after the other                            *)

\* The abbreviations, or names, of the directories, as far as the buffer goes.
_generate_prompt(link) ==
    LET fits == {n \in DOMAIN link : (n - 1) * (NAME_LEN + 1) + NAME_LEN <= CMD_SIZE}
    IN [n \in fits |-> IF Cmd(link[n]).abbr # NoAbbr THEN Cmd(link[n]).abbr ELSE Cmd(link[n]).name]

\* Each change of the directory generates the prompt anew.
Dir(link, cur, is) == [link |-> link, cur |-> cur, is |-> is, ok |-> TRUE, prompt |-> _generate_prompt(link)]
Root == Dir(<<>>, NULL, FALSE)

\* The directory whose links are given.
At(link) ==
    LET e == Last(link)
    IN IF link = <<>> THEN Root
       ELSE IF _is_cmd_tbl_array(e) THEN Dir(link, e, FALSE)
       ELSE Dir(link, Next_level(e), TRUE)

\* "..": the link before the last, from which the current table is set again.
Up(d) == IF d.link = <<>> THEN d ELSE At(Front(d.link))

\* One word: "..", "/", or a name, which is searched without the mandatory
\* commands.  Below the last level cd goes back to the root.
CdWord(d, word) ==
    LET e == IF d.is THEN _search_tbl(word, d.cur) ELSE SearchArray(word, _get_cmd_tbl_array(d.cur, TRUE))
    IN CASE ~d.ok -> d
         [] d.ok /\ word = UpDir -> Up(d)
         [] d.ok /\ word = RootDir -> Root
         [] OTHER -> IF e = NULL \/ Next_level(e) = NULL THEN [d EXCEPT !.ok = FALSE]
                     ELSE IF Len(d.link) < MAX_LEVEL - 1 THEN At(Append(d.link, e))
                     ELSE Root

Cd(d, path) == FoldLeft(CdWord, d, path)
Here == [link |-> apt_dir_link, cur |-> pt_cur_cmd_tbl, is |-> b_is_cmd_tbl, ok |-> TRUE,
         prompt |-> ps_cli_prompt_str]

\* A word that is not found ends the command (CLIR_DIR_NOT_FOUND) where the
\* words before it have led.
_cli_cmd_change_dir(path) ==
    /\ LET d == Cd(Here, path)
       IN /\ apt_dir_link' = d.link /\ pt_cur_cmd_tbl' = d.cur /\ b_is_cmd_tbl' = d.is
          /\ ps_cli_prompt_str' = d.prompt
    /\ UNCHANGED <<apt_cli_array, at_cli_mod_grp_info, pt_next_level, crash>>

-----------------------------------------------------------------------------
(* ls                                                                       *)

\* A command whose line does not fit is left out.
_format_help_str(c) ==
    LET abbr == IF c.abbr = NoAbbr THEN 0 ELSE NAME_LEN
        more == IF c.abbr = NoAbbr /\ c.help = NoHelp THEN 0 ELSE abbr + 2 + c.help
    IN NAME_LEN + more + 1 <= STR_LEN

\* A table is listed up to its first command without help, a table of an array
\* up to its end.
Listed(p, is) ==
    IF is
    THEN {<<p[1], i>> : i \in {i \in DOMAIN Cmds[p[1]] :
            i >= p[2] /\ \A j \in p[2]..i : Cmds[p[1]][j].help # NoHelp}}
    ELSE UNION {{<<t, i>> : i \in DOMAIN Cmds[t]} : t \in Range(_get_cmd_tbl_array(p, FALSE))}

_show_help(p, is) == {c \in Listed(p, is) : _format_help_str(Cmd(c)) /\ ~Cmd(c).hidden}

\* "ls all": the commands, and those of them that are marked with "cd".
_show_all_subdir_and_cmd(p, is) ==
    LET all == {c \in Listed(p, is) : _format_help_str(Cmd(c))}
    IN [all |-> all, cd |-> {c \in all : ~Cmd(c).exec}]

\* What ls lists, with the argument "all" or without it.
_cli_cmd_list_cmd(all) ==
    IF all THEN _show_all_subdir_and_cmd(pt_cur_cmd_tbl, b_is_cmd_tbl).all
    ELSE _show_help(pt_cur_cmd_tbl, b_is_cmd_tbl)

-----------------------------------------------------------------------------
CNext ==
    \/ ~crash /\ \E path \in Paths : _cli_cmd_change_dir(path)
    \/ ~crash /\ \E t \in AppTables, m \in Masks :
         cli_parser_attach_cmd_tbl(t, "APP", m) \/ cli_parser_detach_cmd_tbl(t, "APP", m)
    \/ crash /\ UNCHANGED cvars

-----------------------------------------------------------------------------
\* The current table and b_is_cmd_tbl are those of the last directory link,
\* after any sequence of cd (also those that fail half way and those that run
\* into the last level), attach and detach: else ls, cd and commands would be
\* looked up in different places.
DirectoryConsistent ==
    /\ Here = At(apt_dir_link)
    /\ Len(apt_dir_link) < MAX_LEVEL

\* The command that a word runs or enters in the current directory.
FindHere(word) ==
    IF b_is_cmd_tbl THEN _search_tbl(word, pt_cur_cmd_tbl)
    ELSE SearchArray(word, _get_cmd_tbl_array(pt_cur_cmd_tbl, FALSE))

\* The prompt is a path: as long as the directories above are attached, cd with
\* its words leads from the root to the current directory, or to the one above
\* where the prompt is cut.
PromptLeadsHere ==
    LET attached(n) == CdWord(At(SubSeq(apt_dir_link, 1, n - 1)), Cmd(apt_dir_link[n]).name).link
                         = SubSeq(apt_dir_link, 1, n)
        d == Cd(Root, ps_cli_prompt_str)
    IN (\A n \in DOMAIN apt_dir_link : attached(n)) =>
         d.ok /\ IsPrefix(d.link, apt_dir_link) /\ Len(d.link) = Len(ps_cli_prompt_str)

\* Each table's group mask is stored beside it: detaching compares both, and a
\* shift of only one array would make a table impossible to detach.
GroupsAligned ==
    \A c \in Categories :
        /\ Len(at_cli_mod_grp_info[c]) = Len(apt_cli_array[c])
        /\ \A n \in DOMAIN apt_cli_array[c] : at_cli_mod_grp_info[c][n].tbl = apt_cli_array[c][n]

\* While tables are attached to a category, cd and _parse_cmd can enter it:
\* both look at the category command's pt_next_level.
CategoryEnterable ==
    \A c \in {"APP", "MW"} : apt_cli_array[c] # <<>> => pt_next_level[c] # NULL

Names == UNION {{Cmds[t][i].name : i \in DOMAIN Cmds[t]} : t \in DOMAIN Cmds}

\* ls and the search agree, also in a directory whose table was detached: what
\* ls lists is found by its name, what is found is listed by "ls all" if its
\* line fits and every command before it has help, ls hides only the hidden
\* ones, and what is marked with "cd" can be entered unless it is a category
\* without tables.
ListAgreesWithSearch ==
    LET all == _cli_cmd_list_cmd(TRUE)
    IN /\ \A c \in all : FindHere(Cmd(c).name) # NULL
       /\ \A c \in {FindHere(word) : word \in Names} \ {NULL} :
             \/ c \in all \/ ~_format_help_str(Cmd(c))
             \/ b_is_cmd_tbl /\ \E i \in 1..c[2] : Cmds[c[1]][i].help = NoHelp
       /\ _cli_cmd_list_cmd(FALSE) = {c \in all : ~Cmd(c).hidden}
       /\ \A c \in _show_all_subdir_and_cmd(pt_cur_cmd_tbl, b_is_cmd_tbl).cd :
             \/ CdWord(Here, Cmd(c).name).ok
             \/ c \in {CatEntry.APP, CatEntry.MW} /\ Next_level(c) = NULL

\* From the root, a dotted path runs what its last word runs after cd to the
\* others, or the command without a directory that an earlier word names.  The
\* two searches, one recursive and one iterative, are written independently.
PathAgreesWithCd ==
    apt_dir_link = <<>> =>
        \A x \in {n \in Names : SearchArray(n, apt_cli_array["ROOT"]) # NULL}, y \in Names :
            LET d == Cd(Root, <<x, y>>)
            IN \A z \in Names \ {x, y}, argc \in {1, 2} :
                 LET r == cli_parser(argc, <<x, y, z>>)
                 IN IF d.ok THEN r = _parse_cmd(argc, <<z>>, d.cur)
                    ELSE \/ r \in {Err("CLIR_CMD_NOT_FOUND"), Err("CLIR_INV_CMD_TBL")}
                         \/ Cmd(r).name \in {x, y} /\ Next_level(r) = NULL
=============================================================================
