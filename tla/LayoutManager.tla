--------------------------- MODULE LayoutManager ---------------------------
(***************************************************************************)
(* src/ui/layout_manager.cpp: the layouts in memory, the windows they show *)
(* or hide, and the layouts file, which outlives the program.  A save      *)
(* truncates the file and then writes it; the program can crash at any     *)
(* time, and what a crash leaves of a write is a part of it.               *)
(***************************************************************************)
EXTENDS Naturals, FiniteSets

CONSTANTS
    Name,        \* names of layouts
    Default,     \* the one that is loaded with the file
    Text,        \* window layouts, as the client describes them
    NoText,      \* the empty description
    Window       \* keys of windows

ASSUME LayoutAssumption == Default \in Name /\ NoText \in Text

VARIABLES
    layouts,       \* name -> text and show flags
    lastLayout,    \* the set of the name last loaded, empty at first
    registered,    \* keys in mapWindowState
    visible,       \* the client's show state of each window
    file,          \* the layouts file
    located,       \* layoutSettingsPath is known
    running,       \* "no", "yes", or "saving": file truncated and not written
    shipped,       \* a default file exists in the run tree
    saved,         \* history: layouts saved and not given up since
    apart          \* history: the last load did not read all of the file, and
                   \* no save has written it since

layoutVars == <<layouts, lastLayout, registered, visible, file, located, running,
                shipped, saved, apart>>

None == [n \in {} |-> NoText]
Put(f, n, x) == [m \in DOMAIN f \cup {n} |-> IF m = n THEN x ELSE f[m]]
Only(f, S) == [m \in DOMAIN f \cap S |-> f[m]]

(* A file that is absent, or holds entries that are parsed or not.         *)
Absent == [exists |-> FALSE, parses |-> TRUE, entries |-> None]
FileOf(f) == [exists |-> TRUE, parses |-> TRUE, entries |-> f]
Shipped == FileOf(Put(None, Default,
                      [text |-> CHOOSE t \in Text : t # NoText, flags |-> None]))

(* Entries without a window layout are skipped by the load.                *)
Kept(f) == {n \in DOMAIN f : f[n].text # NoText}
Read(f) == IF f.exists /\ f.parses THEN Only(f.entries, Kept(f.entries)) ELSE None

LayoutInit ==
    /\ layouts = None /\ lastLayout = {} /\ registered = {}
    /\ visible = [w \in Window |-> TRUE]
    /\ file = Absent /\ located = FALSE /\ running = "yes"
    /\ shipped \in BOOLEAN
    /\ saved = None /\ apart = TRUE

-----------------------------------------------------------------------------
(* Mutant: the default file is copied by every load.                       *)
ReplacedAlways(forceReset) == TRUE

Replaced(forceReset) == forceReset \/ ~file.exists

(* layout_manager_load_layouts_file.  The default file replaces one that   *)
(* is absent or is to be reset; without a default file the call returns.   *)
LoadLayoutsFile(forceReset) ==
    LET now == IF Replaced(forceReset) /\ shipped THEN Shipped ELSE file
        early == Replaced(forceReset) /\ ~shipped
    IN  /\ running = "yes"
        /\ located' = TRUE
        /\ file' = now
        /\ layouts' = IF early THEN None ELSE Read(now)
        /\ lastLayout' = IF lastLayout = {} /\ Default \in DOMAIN layouts'
                         THEN {Default} ELSE lastLayout
        /\ apart' = early
        /\ saved' = IF forceReset THEN None ELSE saved
        /\ UNCHANGED <<registered, visible, running, shipped>>

(* The same call when something throws: copying the default file, reading  *)
(* the file (toml_read returns an empty value then), decoding an entry, or *)
(* the client's loadCB, which is called before lastLayout is set.  Some of *)
(* the layouts are in memory, the call returns, and the file is as it was. *)
LoadLayoutsFails(forceReset) ==
    LET copied == IF Replaced(forceReset) /\ shipped THEN {Shipped} ELSE {}
    IN  /\ running = "yes"
        /\ located' = TRUE
        /\ file' \in {file} \cup copied
        /\ \E S \in SUBSET DOMAIN Read(file') : layouts' = Only(Read(file'), S)
        /\ \/ UNCHANGED lastLayout
           \/ lastLayout = {} /\ Default \in DOMAIN layouts' /\ lastLayout' = {Default}
        /\ apart' = TRUE
        /\ saved' = IF forceReset THEN None ELSE saved
        /\ UNCHANGED <<registered, visible, running, shipped>>

(* The show flags of the registered windows are added to the ones there.   *)
WithFlags(n) ==
    LET old == IF n \in DOMAIN layouts THEN layouts[n].flags ELSE None
    IN  [w \in DOMAIN old \cup registered |->
            IF w \in registered THEN visible[w] ELSE old[w]]

(* Opening the file for a save truncates it, when its path is known.       *)
Truncates ==
    IF located
    THEN running' = "saving" /\ file' = FileOf(None)
    ELSE UNCHANGED <<running, file>>

(* A save writes the layouts in memory, so it gives up the saved ones that *)
(* the last load did not read.                                             *)
StillSaved == IF apart THEN Only(saved, DOMAIN layouts) ELSE saved

(* layout_manager_save_layout, up to the truncation.                       *)
SaveLayout(n, text) ==
    /\ running = "yes"
    /\ layouts' = Put(layouts, n, [text |-> text, flags |-> WithFlags(n)])
    /\ saved' = IF ~located THEN saved
                ELSE IF text = NoText THEN Only(StillSaved, Name \ {n})
                ELSE Put(StillSaved, n, layouts'[n])
    /\ Truncates
    /\ UNCHANGED <<lastLayout, registered, visible, located, shipped, apart>>

(* layout_manager_save_layouts_file called by the client.                  *)
SaveLayoutsFile ==
    /\ running = "yes"
    /\ saved' = IF located THEN StillSaved ELSE saved
    /\ Truncates
    /\ UNCHANGED <<layouts, lastLayout, registered, visible, located, shipped, apart>>

Written == layouts

WriteFile ==
    /\ running = "saving"
    /\ running' = "yes"
    /\ file' = FileOf(Written)
    /\ apart' = FALSE
    /\ UNCHANGED <<layouts, lastLayout, registered, visible, located, shipped, saved>>

(* Mutant: the windows of the layout are shown, whatever was saved.        *)
LoadLayoutShows(n) ==
    /\ running = "yes"
    /\ n \in DOMAIN layouts
    /\ lastLayout' = {n}
    /\ visible' = [w \in Window |->
          (w \in registered \cap DOMAIN layouts[n].flags) \/ visible[w]]
    /\ UNCHANGED <<layouts, registered, file, located, running, shipped, saved, apart>>

(* layout_manager_load_layout; an unknown name changes nothing.  The flags *)
(* of windows that are not registered are left out.                        *)
LoadLayout(n) ==
    /\ running = "yes"
    /\ n \in DOMAIN layouts
    /\ lastLayout' = {n}
    /\ visible' = [w \in Window |->
          IF w \in registered \cap DOMAIN layouts[n].flags
          THEN layouts[n].flags[w] ELSE visible[w]]
    /\ UNCHANGED <<layouts, registered, file, located, running, shipped, saved, apart>>

RegisterWindow(w) ==
    /\ running = "yes"
    /\ registered' = registered \cup {w}
    /\ UNCHANGED <<layouts, lastLayout, visible, file, located, running, shipped,
                   saved, apart>>

(* The client, or the user, shows or hides a window.                       *)
Toggle(w) ==
    /\ running = "yes"
    /\ visible' = [visible EXCEPT ![w] = ~@]
    /\ UNCHANGED <<layouts, lastLayout, registered, file, located, running, shipped,
                   saved, apart>>

(* The program ends or crashes.  Of a write that is under way some of the  *)
(* entries are in the file, or a piece that does not parse; what was saved *)
(* before is given up.                                                     *)
Stop ==
    /\ running # "no"
    /\ running' = "no"
    /\ \/ running = "yes" /\ UNCHANGED <<file, saved>>
       \/ /\ running = "saving" /\ saved' = None
          /\ \/ \E S \in SUBSET DOMAIN layouts : file' = FileOf(Only(layouts, S))
             \/ file' = [FileOf(None) EXCEPT !.parses = FALSE]
    /\ UNCHANGED <<layouts, lastLayout, registered, visible, located, shipped, apart>>

(* It starts again with nothing in memory.                                 *)
Restart ==
    /\ running = "no"
    /\ running' = "yes"
    /\ layouts' = None /\ lastLayout' = {} /\ registered' = {}
    /\ visible' = [w \in Window |-> TRUE]
    /\ located' = FALSE /\ apart' = TRUE
    /\ UNCHANGED <<file, shipped, saved>>

LayoutNext ==
    \/ \E force \in BOOLEAN : LoadLayoutsFile(force) \/ LoadLayoutsFails(force)
    \/ \E n \in Name, text \in Text : SaveLayout(n, text)
    \/ SaveLayoutsFile
    \/ WriteFile
    \/ \E n \in Name : LoadLayout(n)
    \/ \E w \in Window : RegisterWindow(w) \/ Toggle(w)
    \/ Stop
    \/ Restart

LayoutSpec == LayoutInit /\ [][LayoutNext]_layoutVars

-----------------------------------------------------------------------------
LayoutTypeOK ==
    /\ \A n \in DOMAIN layouts : /\ layouts[n].text \in Text
                                 /\ DOMAIN layouts[n].flags \subseteq Window
    /\ DOMAIN layouts \subseteq Name /\ DOMAIN saved \subseteq Name
    /\ lastLayout \subseteq Name /\ Cardinality(lastLayout) <= 1
    /\ registered \subseteq Window /\ visible \in [Window -> BOOLEAN]
    /\ running \in {"no", "yes", "saving"}
    /\ {located, shipped, apart} \subseteq BOOLEAN

(* What a restart would read is what is in memory: outside a save, a       *)
(* program that has read all of the file, or has written it, finds there   *)
(* the layouts it has, apart from those without a window layout.           *)
FileIsMemory ==
    running = "yes" /\ located /\ ~apart
        => Read(file) = Only(layouts, Kept(layouts))

(* A layout that was saved is in the file, with its text and flags, across *)
(* any number of other saves, loads, failed loads, ends and restarts.  It  *)
(* ends with the next save of the same layout and with a reset, and in two *)
(* ways it is lost: the program crashes inside a save, or it saves after a *)
(* load that failed before it came to this layout.                         *)
SavedSurvives ==
    running # "saving" =>
        \A n \in DOMAIN saved : n \in DOMAIN Read(file) /\ Read(file)[n] = saved[n]

(* Loading a layout shows and hides the windows as they were when it was   *)
(* saved, also in a later run of the program that has read the file.       *)
RestoresWindows ==
    [][\A n \in DOMAIN saved : located /\ LoadLayout(n) =>
          \A w \in registered \cap DOMAIN saved[n].flags :
              visible'[w] = saved[n].flags[w]]_layoutVars
=============================================================================
