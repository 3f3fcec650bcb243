------------------------------ MODULE V1Editor ------------------------------
(***************************************************************************)
(* The version 1 profile editor, tui/profile_editor.c: one session on one  *)
(* profile "p", while other programs may change the files.                 *)
(*                                                                         *)
(* A step is one key press with the dialogs it opens; only a save is two   *)
(* steps, the write and the load that follows it.  The profile that is     *)
(* edited may have one base.  A value is "0" (false, zero or the empty     *)
(* string: not active) or another string.  Text is reduced to sets: which  *)
(* options a search or a filter text matches.  Status lines, the inspector *)
(* and the position counter of a search are left out.                      *)
(***************************************************************************)
EXTENDS Naturals, Sequences, SequencesExt, FiniteSets

CONSTANTS
    Schemas,      \* [options, deps, defaults, targets]
    Disks,        \* files at the start of the session
    Changes,      \* what others may write: [kind, file] or [kind, schema]
    MaxChanges,   \* bound: changes by others
    MaxSaves,     \* bound: writes of the profile
    Target,       \* --target, or None
    Texts,        \* what may be typed as a search or a filter; "" is one
    Typed,        \* the numbers that may be typed as a value
    Tags,         \* what may be typed as a tag; "" is none
    Categories,   \* what may be typed as a category; <<>> is none
    PageStep      \* rows of a page

None == "(null)"

\* The entry of an option that counts, the last one.
Value(values, id) ==
    LET at == {i \in DOMAIN values : values[i][1] = id} IN
    IF at = {} THEN None ELSE values[CHOOSE i \in at : \A j \in at : j <= i][2]

Ids(schema) == {o.id : o \in ToSet(schema.options)}

\* What loading makes sure of: an edge of the graph joins two options that are
\* known, and every option has a default, a category and no null value.
ASSUME SchemasAssumption ==
    \A s \in Schemas :
        /\ s.options \in Seq(ToSet(s.options))
        /\ \A d \in s.deps : d.from # d.to /\ {d.from, d.to} \subseteq Ids(s)
        /\ \A o \in ToSet(s.options) :
            /\ o.category \in Seq(STRING) /\ o.category # <<>>
            /\ o.type = "enum" => None \notin o.values
            /\ Value(s.defaults, o.id) # None
ASSUME PageStepAssumption == PageStep \in Nat \ {0}

Absent == [k |-> "absent"]
Torn == [k |-> "torn"]
File(b, t, v) == [k |-> "file", base |-> b, target |-> t, values |-> v]

\* The files that may hold the profile; the loader reads one of the directories.
Paths == {"root/p", "config/p", "root/other", "config/other"}

\* A file that parses has a list of values; what is not there or is cut off has none.
IsFile(f) ==
    \/ f \in {Absent, Torn}
    \/ /\ f = File(f.base, f.target, f.values)
       /\ f.values \in Seq(ToSet(f.values))
       /\ \A i \in DOMAIN f.values : f.values[i][2] # None

ASSUME DisksAssumption ==
    /\ \A d \in Disks :
        /\ DOMAIN d = Paths \cup {"base", "schema", "layout"}
        /\ d.schema \in Schemas
        /\ \A x \in Paths \cup {"base"} : IsFile(d[x])
    /\ \A c \in Changes :
        /\ c.path = "schema" => c.content \in Schemas
        /\ c.path \in Paths \cup {"base"} => IsFile(c.content)

VARIABLES
    pc,        \* "run", "reload" between write and load of a save, "closed"
    disk,      \* the profile files by path, the base, the schema, and the layout:
               \* "nested" if the loader reads config/, "flat" if the root
    changes,   \* changes made by others so far
    saves,     \* times the profile was written
    project,   \* the loaded project: [schema, profile, base, path]
    edits,     \* values edited and not saved, in the order of the first edit
    config,    \* resolved value of each option
    dirty, created,
    quitting,  \* the save was chosen in the dialog of a quit
    outcome,   \* "saved", "quit" or "discarded"; "none" once an edit or a save followed
    menu,      \* the current menu, the path of its category
    flat, filters, search,
    view,      \* the rows on the screen
    selected   \* index of the selected row, from 0

files == <<disk, changes, saves>>
model == <<project, edits, config, dirty, created>>
screen == <<menu, flat, filters, search, view, selected>>
vars == <<pc, files, model, quitting, outcome, screen>>

-----------------------------------------------------------------------------
\* Loading and resolving.

Directory(d) ==
    IF d.layout = "flat" THEN {"root/p", "root/other"} ELSE {"config/p", "config/other"}
Found(d) == {path \in Directory(d) : d[path] # Absent}

\* The loader: every file is whole and names known options, no profile has
\* two files, and a base that is named exists.
Loads(d) ==
    /\ \A p, q \in Found(d) : p = q
    /\ \A f \in {d[path] : path \in Found(d)} \cup ({d.base} \ {Absent}) :
        /\ f.k = "file"
        /\ \A i \in DOMAIN f.values : f.values[i][1] \in Ids(d.schema)
        /\ f.base # None => d.base # Absent

Loaded(d) ==
    LET path == IF Found(d) = {} THEN None ELSE CHOOSE p \in Found(d) : TRUE IN
    [schema  |-> d.schema,
     profile |-> IF path = None THEN Absent ELSE d[path],
     base    |-> d.base,
     path    |-> path]

\* confit_tui_ensure_profile
EnsureProfile(loaded) ==
    IF loaded.profile = Absent
    THEN [loaded EXCEPT !.profile = File(None, Target, <<>>)]
    ELSE loaded

Base(proj) == IF proj.profile.base = None THEN File(None, None, <<>>) ELSE proj.base

TargetValues(proj) ==
    LET name == CASE Target # None              -> Target
                  [] Target = None /\ proj.profile.target # None -> proj.profile.target
                  [] OTHER                      -> Base(proj).target
    IN  IF name = None THEN <<>> ELSE proj.schema.targets[name]

\* confit_resolver_resolve with the edits as values of the user.
Resolved(proj, user) ==
    LET layers == <<user, proj.profile.values, TargetValues(proj), Base(proj).values,
                    proj.schema.defaults>>
        Giving(id) == {i \in DOMAIN layers : Value(layers[i], id) # None}
    IN  [id \in Ids(proj.schema) |->
            Value(layers[CHOOSE i \in Giving(id) : \A j \in Giving(id) : i <= j], id)]

Active(value) == value # "0"

Resolves(proj, user) ==
    /\ proj.profile # Absent
    /\ LET values == Resolved(proj, user) IN
       \A d \in proj.schema.deps :
        Active(values[d.from]) =>
            /\ d.kind = "requires" => Active(values[d.to])
            /\ d.kind = "conflicts" => ~Active(values[d.to])
-----------------------------------------------------------------------------
\* Menus, rows and the view.

Root == <<>>

\* The entries of a list at the places in the set, in their order.
Picked(list, places) ==
    LET upTo[n \in 0..Len(list)] ==
            IF n = 0 THEN <<>>
            ELSE upTo[n - 1] \o (IF n \in places THEN <<list[n]>> ELSE <<>>)
    IN  upTo[Len(list)]

\* Adds a category and the categories above it that have no menu yet.
EnsureMenuPath(menus, path) ==
    LET prefixes == [i \in DOMAIN path |-> SubSeq(path, 1, i)] IN
    menus \o Picked(prefixes, {i \in DOMAIN path : prefixes[i] \notin ToSet(menus)})

MenusOf(options) ==
    LET upTo[n \in 0..Len(options)] ==
            IF n = 0 THEN <<Root>> ELSE EnsureMenuPath(upTo[n - 1], options[n].category)
    IN  upTo[Len(options)]

Menus == [schema \in Schemas |-> MenusOf(schema.options)]

\* confit_tui_rebuild_menus keeps the current menu if it is still there.
KeptMenu(schema) == IF menu \in ToSet(Menus[schema]) THEN menu ELSE Root

MenuRow(path) == [kind |-> "menu", menu |-> path, id |-> None]
OptionRow(o) == [kind |-> "option", menu |-> o.category, id |-> o.id]

\* confit_tui_refresh_rows: the menus but the root, then the options.
Rows == [schema \in Schemas |->
    LET menus == Tail(Menus[schema]) IN
    [i \in DOMAIN menus |-> MenuRow(menus[i])]
        \o [i \in DOMAIN schema.options |-> OptionRow(schema.options[i])]]

Option(schema, id) == CHOOSE o \in ToSet(schema.options) : o.id = id

MatchesSearch(o, text) == text = "" \/ text \in o.words

OptionVisible(o, f) ==
    /\ MatchesSearch(o, f.text)
    /\ f.category = <<>> \/ o.category = f.category
    /\ f.tag = "" \/ f.tag \in o.tags

HasVisibleDescendant(schema, path, f) ==
    \E o \in ToSet(schema.options) : IsPrefix(path, o.category) /\ OptionVisible(o, f)

Shown(schema, row, current, isFlat, f) ==
    IF row.kind = "menu"
    THEN /\ ~isFlat
         /\ Front(row.menu) = current
         /\ HasVisibleDescendant(schema, row.menu, f)
    ELSE /\ isFlat \/ row.menu = current
         /\ OptionVisible(Option(schema, row.id), f)

ViewOf(schema, current, isFlat, f) ==
    LET rows == Rows[schema] IN
    Picked(rows, {i \in DOMAIN rows : Shown(schema, rows[i], current, isFlat, f)})

\* Mutant of Clamp: a selection past the end is kept.
ClampNot(index, rows) == index

Clamp(index, rows) ==
    IF index < Len(rows) THEN index ELSE IF rows = <<>> THEN 0 ELSE Len(rows) - 1

\* confit_tui_rebuild_view, with the selection the caller leaves.
RebuildView(schema, current, isFlat, f, index) ==
    /\ menu' = current /\ flat' = isFlat /\ filters' = f
    /\ view' = ViewOf(schema, current, isFlat, f)
    /\ selected' = Clamp(index, view')

\* confit_tui_select_first_option
FirstOption(rows) ==
    LET at == {i \in DOMAIN rows : rows[i].kind = "option"} IN
    IF at = {} THEN 0 ELSE (CHOOSE i \in at : \A j \in at : i <= j) - 1

\* The end of commands and filters: back to the first option.
CommandRebuild(current, isFlat, f) ==
    /\ menu' = current /\ flat' = isFlat /\ filters' = f
    /\ view' = ViewOf(project.schema, current, isFlat, f)
    /\ selected' = FirstOption(view')

RefreshRows(proj) == RebuildView(proj.schema, KeptMenu(proj.schema), flat, filters, selected)
-----------------------------------------------------------------------------
\* Starting, and other programs.

NoFilters == [text |-> "", category |-> <<>>, tag |-> ""]

Init ==
    /\ disk \in Disks /\ changes = 0 /\ saves = 0
    /\ Loads(disk) /\ Resolves(EnsureProfile(Loaded(disk)), <<>>)
    /\ project = EnsureProfile(Loaded(disk))
    /\ edits = <<>>
    /\ config = Resolved(project, <<>>)
    /\ created = (project.path = None)
    /\ dirty = created
    /\ pc = "run" /\ quitting = FALSE /\ outcome = "none"
    /\ menu = Root /\ flat = FALSE /\ filters = NoFilters /\ search = ""
    /\ view = ViewOf(project.schema, Root, FALSE, NoFilters)
    /\ selected = 0

\* Another program writes a file of the project.
Change ==
    /\ pc # "closed" /\ changes < MaxChanges
    /\ \E c \in Changes : disk' = [disk EXCEPT ![c.path] = c.content] /\ disk' # disk
    /\ changes' = changes + 1
    /\ UNCHANGED <<pc, saves, model, quitting, outcome, screen>>
-----------------------------------------------------------------------------
\* Editing.

Incoming(id, kind) ==
    \E d \in project.schema.deps : d.kind = kind /\ d.to = id /\ Active(config[d.from])
Outgoing(id, kind, active) ==
    \E d \in project.schema.deps : d.kind = kind /\ d.from = id /\ Active(config[d.to]) = active

\* Mutant of CandidateBlocked: options in conflict with this one are not asked.
CandidateBlockedOneWay(id, value) ==
    \/ Outgoing(id, "visible_if", FALSE)
    \/ Incoming(id, "forces")
    \/ Active(value) /\ (Outgoing(id, "requires", FALSE) \/ Outgoing(id, "conflicts", TRUE))
    \/ ~Active(value) /\ Incoming(id, "requires")

\* confit_tui_candidate_block_reason, on the values now resolved.
CandidateBlocked(id, value) ==
    \/ Outgoing(id, "visible_if", FALSE)
    \/ Incoming(id, "forces")
    \/ /\ Active(value)
       /\ \/ Outgoing(id, "requires", FALSE)
          \/ Outgoing(id, "conflicts", TRUE)
          \/ Incoming(id, "conflicts")
    \/ ~Active(value) /\ Incoming(id, "requires")

SetEdit(id, value) ==
    IF \E i \in DOMAIN edits : edits[i][1] = id
    THEN [i \in DOMAIN edits |-> IF edits[i][1] = id THEN <<id, value>> ELSE edits[i]]
    ELSE Append(edits, <<id, value>>)

\* confit_tui_apply_value_edit: an edit that does not resolve stays in the
\* list, unresolved and not marked as a change.
ApplyValueEdit(id, value) ==
    IF CandidateBlocked(id, value)
    THEN outcome' = "none" /\ UNCHANGED <<model, screen>>
    ELSE /\ edits' = SetEdit(id, value)
         /\ outcome' = "none"
         /\ IF Resolves(project, edits')
            THEN /\ config' = Resolved(project, edits')
                 /\ dirty' = TRUE
                 /\ RefreshRows(project)
            ELSE UNCHANGED <<config, dirty, menu, flat, filters, view, selected>>
         /\ UNCHANGED <<project, created, search>>

SelectedRow == IF selected < Len(view) THEN view[selected + 1] ELSE [kind |-> "none", id |-> None]

ToggleBool(o) == ApplyValueEdit(o.id, IF config[o.id] = "0" THEN "1" ELSE "0")

\* One of the values of an enum, chosen from a list.
PromptEnum(o) == \E value \in o.values : ApplyValueEdit(o.id, value)

\* confit_tui_parse_value for a number: outside its range it is refused.
ParseValue(o, number) == IF number \in o.values THEN ToString(number) ELSE None

\* The dialog keeps asking until the text parses, or is cancelled.
PromptTypedValue(o) ==
    \E number \in Typed :
        ParseValue(o, number) # None /\ ApplyValueEdit(o.id, ParseValue(o, number))

PromptEdit(o) ==
    \/ o.type = "bool" /\ ToggleBool(o)
    \/ o.type = "enum" /\ PromptEnum(o)
    \/ o.type = "int" /\ PromptTypedValue(o)

Edit ==
    /\ pc = "run" /\ SelectedRow.kind = "option"
    /\ PromptEdit(Option(project.schema, SelectedRow.id))
    /\ UNCHANGED <<pc, files, quitting>>
-----------------------------------------------------------------------------
\* Saving.

ProfilePath == "config/p"

\* Mutant of SavedProfile: edits come first, the values of the profile after them.
SavedProfileFirst ==
    LET old == project.profile IN
    File(old.base, IF old.target # None THEN old.target ELSE Target, edits \o old.values)

\* confit_tui_build_profile_toml: every entry of an edited option gets the
\* edited value, edits of other options follow.
SavedProfile ==
    LET old == project.profile
        Kept(e) == IF Value(edits, e[1]) = None THEN e ELSE <<e[1], Value(edits, e[1])>>
    IN  File(old.base,
             IF old.target # None THEN old.target ELSE Target,
             [i \in DOMAIN old.values |-> Kept(old.values[i])]
                \o Picked(edits, {i \in DOMAIN edits : Value(old.values, edits[i][1]) = None}))

\* confit_tui_save_profile up to the write.  A file that exists is replaced
\* only when the user says so; a write may fail before or after the file is
\* truncated.
SaveProfile(quit) ==
    /\ saves < MaxSaves
    /\ IF Resolves(project, edits)
       THEN /\ config' = Resolved(project, edits)
            /\ RefreshRows(project)
            /\ \/ /\ disk' = [disk EXCEPT ![ProfilePath] = SavedProfile]
                  /\ pc' = "reload" /\ quitting' = quit /\ UNCHANGED outcome
               \/ /\ disk[ProfilePath] # Absent
                  /\ outcome' = "none" /\ UNCHANGED <<disk, pc, quitting>>
               \/ /\ disk' \in {disk, [disk EXCEPT ![ProfilePath] = Torn]}
                  /\ outcome' = "none" /\ UNCHANGED <<pc, quitting>>
       ELSE /\ outcome' = "none"
            /\ UNCHANGED <<pc, disk, quitting, config, menu, flat, filters, view, selected>>
    /\ saves' = IF disk' = disk THEN saves ELSE saves + 1
    /\ UNCHANGED <<changes, project, edits, dirty, created, search>>

Save == pc = "run" /\ SaveProfile(FALSE)

Reloads == Loads(disk) /\ Resolves(Loaded(disk), <<>>)

\* Mutant of Reload: the change mark is taken off although the load failed.
ReloadClean ==
    /\ pc = "reload"
    /\ dirty' = FALSE
    /\ IF Reloads
       THEN /\ project' = Loaded(disk)
            /\ edits' = <<>> /\ created' = FALSE
            /\ config' = Resolved(project', <<>>)
            /\ RefreshRows(project')
            /\ outcome' = "saved"
       ELSE /\ outcome' = "none"
            /\ UNCHANGED <<project, edits, created, config, menu, flat, filters, view, selected>>
    /\ pc' = IF quitting THEN "closed" ELSE "run"
    /\ quitting' = FALSE
    /\ UNCHANGED <<files, search>>

\* confit_tui_reload_saved_project and the end of the save; a quit goes on
\* only if nothing is left to save.
Reload ==
    /\ pc = "reload"
    /\ IF Reloads
       THEN /\ project' = Loaded(disk)
            /\ edits' = <<>> /\ dirty' = FALSE /\ created' = FALSE
            /\ config' = Resolved(project', <<>>)
            /\ RefreshRows(project')
            /\ outcome' = "saved"
       ELSE /\ outcome' = "none"
            /\ UNCHANGED <<model, menu, flat, filters, view, selected>>
    /\ pc' = IF quitting /\ ~dirty' THEN "closed" ELSE "run"
    /\ quitting' = FALSE
    /\ UNCHANGED <<files, search>>

\* confit_tui_state_clear frees what was on the screen.
Close(how) ==
    /\ pc' = "closed" /\ outcome' = how
    /\ menu' = Root /\ flat' = FALSE /\ filters' = NoFilters /\ search' = ""
    /\ view' = <<>> /\ selected' = 0
    /\ UNCHANGED <<files, model, quitting>>

\* confit_tui_confirm_dirty_quit, by q, by :quit, or by Esc in the main menu.
Quit ==
    /\ pc = "run"
    /\ \/ ~dirty /\ Close("quit")
       \/ dirty /\ Close("discarded")
       \/ dirty /\ outcome' = "none" /\ UNCHANGED <<pc, files, model, quitting, screen>>
       \/ dirty /\ SaveProfile(TRUE)
-----------------------------------------------------------------------------
\* Moving, menus, filters and search.

Keys == {"down", "up", "page_down", "page_up", "home", "end"}

Moved(key) ==
    LET last == IF view = <<>> THEN 0 ELSE Len(view) - 1 IN
    CASE key = "down"      -> IF selected + 1 < Len(view) THEN selected + 1 ELSE selected
      [] key = "up"        -> IF selected > 0 THEN selected - 1 ELSE selected
      [] key = "page_down" -> IF selected + PageStep < Len(view) THEN selected + PageStep ELSE last
      [] key = "page_up"   -> IF selected > PageStep THEN selected - PageStep ELSE 0
      [] key = "home"      -> 0
      [] key = "end"       -> last

Same == UNCHANGED <<pc, files, model, quitting, outcome>>

Move ==
    /\ pc = "run"
    /\ \E key \in Keys : selected' = Moved(key)
    /\ Same /\ UNCHANGED <<menu, flat, filters, search, view>>

EnterMenu ==
    /\ pc = "run" /\ SelectedRow.kind = "menu"
    /\ RebuildView(project.schema, SelectedRow.menu, flat, filters, 0)
    /\ Same /\ UNCHANGED search

\* The left key, and Esc below the main menu.
GoParentMenu ==
    /\ pc = "run" /\ menu # Root
    /\ RebuildView(project.schema, Front(menu), flat, filters, 0)
    /\ Same /\ UNCHANGED search

\* :tree and :flat
SetView ==
    /\ pc = "run"
    /\ \E isFlat \in BOOLEAN : CommandRebuild(Root, isFlat, filters)
    /\ Same /\ UNCHANGED search

\* The category and tag keys.
SetFilter ==
    /\ pc = "run"
    /\ \/ \E c \in Categories : CommandRebuild(menu, flat, [filters EXCEPT !.category = c])
       \/ \E t \in Tags : CommandRebuild(menu, flat, [filters EXCEPT !.tag = t])
    /\ Same /\ UNCHANGED search

\* :filter, which takes no empty text.
CommandFilter ==
    /\ pc = "run"
    /\ \E t \in Texts \ {""} : CommandRebuild(menu, flat, [filters EXCEPT !.text = t])
    /\ Same /\ UNCHANGED search

\* The key selects the first row, :clear the first option.
ClearFilters ==
    /\ pc = "run"
    /\ search' = ""
    /\ \/ RebuildView(project.schema, menu, flat, NoFilters, 0)
       \/ CommandRebuild(menu, flat, NoFilters)
    /\ Same

SelectedIndex ==
    IF selected < Len(view)
    THEN CHOOSE i \in DOMAIN Rows[project.schema] : Rows[project.schema][i] = view[selected + 1]
    ELSE 0

Matching(text) ==
    {i \in DOMAIN Rows[project.schema] :
        LET row == Rows[project.schema][i] IN
        row.kind = "option" /\ MatchesSearch(Option(project.schema, row.id), text)}

\* Mutant of BestMatch: the match that is selected already is found again.
BestMatchAgain(text, direction) ==
    LET at == Matching(text)
        s == SelectedIndex
    IN  IF direction = 1
        THEN Min(IF \E i \in at : i >= s THEN {i \in at : i >= s} ELSE at)
        ELSE Max(IF \E i \in at : i <= s THEN {i \in at : i <= s} ELSE at)

\* The next or the previous match, around the end.
BestMatch(text, direction) ==
    LET at == Matching(text)
        s == SelectedIndex
    IN  IF direction = 1
        THEN Min(IF \E i \in at : i > s THEN {i \in at : i > s} ELSE at)
        ELSE Max(IF \E i \in at : i < s THEN {i \in at : i < s} ELSE at)

\* confit_tui_select_row_index, as the menu, rows and selection it leaves: the
\* menu of the row is opened; a row that the filters hide is not selected.
SelectRow(index) ==
    LET row == Rows[project.schema][index]
        current == IF flat THEN menu ELSE row.menu
        rows == ViewOf(project.schema, current, flat, filters)
    IN  [menu |-> current, view |-> rows,
         selected |-> IF row \in ToSet(rows)
                      THEN (CHOOSE i \in DOMAIN rows : rows[i] = row) - 1
                      ELSE Clamp(selected, rows)]

Landed(text, direction) ==
    IF text # "" /\ Matching(text) # {}
    THEN SelectRow(BestMatch(text, direction))
    ELSE [menu |-> menu, view |-> view, selected |-> selected]

SearchJump(text, direction) ==
    /\ pc = "run"
    /\ search' = text
    /\ LET to == Landed(text, direction) IN
       menu' = to.menu /\ view' = to.view /\ selected' = to.selected
    /\ UNCHANGED <<pc, files, model, quitting, outcome, flat, filters>>

SetSearch == \E text \in Texts : SearchJump(text, 1)
SearchNext == SearchJump(search, 1)
SearchPrevious == SearchJump(search, -1)

Next ==
    \/ Change \/ Edit \/ Save \/ Reload \/ Quit
    \/ Move \/ EnterMenu \/ GoParentMenu \/ SetView \/ SetFilter \/ CommandFilter \/ ClearFilters
    \/ SetSearch \/ SearchNext \/ SearchPrevious

Spec == Init /\ [][Next]_vars
-----------------------------------------------------------------------------
\* Properties.

\* What the screen shows is always the resolution of the profile in memory
\* with all edits: an edit that passes the check against the values now
\* resolved never fails to resolve, so none stays behind unresolved and not
\* marked as a change.
EditsResolve ==
    /\ Resolves(project, edits)
    /\ config = Resolved(project, edits)

\* No edit and no new profile is left behind without a word: while there is
\* one the editor is dirty, and it closes only after the user discarded the
\* changes or after they were written and the load that follows took them over.
UnsavedIsDirty ==
    /\ (edits # <<>> \/ created) => dirty
    /\ pc = "closed" /\ outcome # "discarded" => edits = <<>> /\ ~created

\* The loader finds the profile in the file the editor writes.
OwnFile == disk.layout = "nested" /\ project.path \in {None, ProfilePath}

\* The load after a write brings back the values that were on the screen
\* before it, whatever the profile held (an option listed twice, a target of
\* its own, values of the base) when no one else wrote in between.
SaveKeepsScreen ==
    [][pc = "reload" /\ pc' # "reload" /\ changes = 0 /\ OwnFile =>
        outcome' = "saved" /\ config' = config /\ edits' = <<>>]_vars

\* The rows on the screen are those the menu, the mode and the filters select
\* from the loaded schema, the selection is one of them, and the menu exists,
\* after any order of edits, searches, filters and reloads.
ViewIsCurrent ==
    /\ menu \in ToSet(Menus[project.schema])
    /\ flat => menu = Root
    /\ pc # "closed" => view = ViewOf(project.schema, menu, flat, filters)
    /\ selected < Len(view) \/ (view = <<>> /\ selected = 0)

\* The matches in the order in which the next key visits them from row s.
Distance(s, i) ==
    LET n == Len(Rows[project.schema]) IN IF i > s THEN i - s ELSE i + n - s

\* The next key always reaches the match that follows the selected row, in
\* whatever menu it is, unless a filter hides it; so it visits all of them in
\* turn.
NextReaches ==
    pc = "run" /\ search # "" =>
        \A i \in Matching(search) :
            LET row == Rows[project.schema][i]
                to == Landed(search, 1)
            IN  /\ \A j \in Matching(search) :
                    Distance(SelectedIndex, i) <= Distance(SelectedIndex, j)
                /\ OptionVisible(Option(project.schema, row.id), filters)
                => to.view[to.selected + 1] = row

\* docs/cli-tui.md: "저장 후에는 profile TOML을 다시 load하고 graph/resolve를 재실행해
\* 화면 state와 file state를 맞춘다."  A save that is reported done has put what
\* the screen showed into the profile the loader reads.
SavedEverywhere ==
    [][pc = "reload" /\ outcome' = "saved" /\ changes = 0 => config' = config]_vars
=============================================================================
