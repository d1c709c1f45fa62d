---------------------------- MODULE HyperDatabase ----------------------------
(***************************************************************************)
(* The page databases of HyperDoc: the program htadd, which writes the     *)
(* file ht.db of a directory, HyperDoc, which reads every ht.db of HTPATH  *)
(* when it starts, and hthits, which searches the pages one ht.db lists.   *)
(*                                                                         *)
(* A database is a sequence of lines: a "file" line names a .ht file and   *)
(* the time it was listed at, and the lines after it are its pages, macros *)
(* and patches, each with its place in the file.  A .ht file is the        *)
(* sequence of its definitions, so a place is an index.  Files have inodes *)
(* and names point to them: what a program holds open outlives the name.   *)
(*                                                                         *)
(* htadd copies its result through a file of fixed name in the temporary   *)
(* directory, so everything that another htadd, a kill or an edit may do   *)
(* between its steps is here.  A block of oa_copy_file is some lines, and    *)
(* what stdio holds back is written when the stream is closed.             *)
(***************************************************************************)
EXTENDS Integers, SequencesExt, FiniteSetsExt, TLC

CONSTANTS
    Path,       \* the directories of HTPATH, in order
    Files,      \* names of .ht files
    Texts,      \* what a .ht file may hold: sequences of [kind, name]
    Disks,      \* the texts the files may have at first: [Dirs \X Files -> Texts],
                \* <<>> when there is no such file
    Adders,     \* runs of htadd
    Uses,   \* their arguments: [dir, op, names], a name is [dir, file]
    MaxTime,    \* the bound of the clock
    MaxEdits,   \* how often someone edits a .ht file
    Edited,     \* the files that may be edited
    Block       \* how many lines oa_copy_file copies at a time

Dirs == Range(Path)
Nowhere == "nowhere"    \* the directory of a name without a path
Kinds == {"page", "newcommand", "patch"}
AllTexts == Texts \union {texts[k] : texts \in Disks, k \in Dirs \X Files}
Names == UNION {{text[i].name : i \in DOMAIN text} : text \in AllTexts}

ASSUME DatabaseAssumption ==
    /\ Path \in Seq(Dirs) /\ Nowhere \notin Dirs /\ IsInjective(Path)
    /\ \A text \in AllTexts : text \in Seq([kind : Kinds \union {"broken"}, name : Names])
    /\ {"none", "skipped"} \cap (Files \union Names) = {}
    /\ IsFiniteSet(Files) /\ \A texts \in Disks : DOMAIN texts = Dirs \X Files
    /\ Uses \subseteq [dir : Dirs, op : {"add", "delete", "fresh"},
                           names : Seq([dir : Dirs \union {Nowhere}, file : Files])]
    /\ MaxTime \in Nat /\ MaxEdits \in Nat
    /\ Edited \subseteq Dirs \X Files /\ Block \in Nat \ {0}

VARIABLES
    disk,       \* [Dirs \X Files -> [text, time]], time 0 when there is no such file
    store,      \* the contents of the inodes of databases and temporary files
    dbInode,    \* the inode of each directory's ht.db, 0 when there is none
    tempInode,  \* the inode of ht2.db
    htadd,      \* the runs of htadd
    clock,
    past        \* what happened, for the properties only

databaseVars == <<disk, store, dbInode, tempInode, htadd, clock, past>>

DbLine(kind, name, at) == [kind |-> kind, name |-> name, at |-> at]
Hole == DbLine("hole", "hole", 0)

-----------------------------------------------------------------------------
(* What htadd writes.                                                      *)

\* The definitions before the first one htadd cannot read.
Readable(text) ==
    LET bad == {i \in DOMAIN text : text[i].kind = "broken"}
    IN  IF bad = {} THEN text ELSE SubSeq(text, 1, Min(bad) - 1)

Breaks(text) == Readable(text) # text

AddNewPages(file, there) ==
    <<DbLine("file", file, there.time)>>
    \o [i \in DOMAIN Readable(there.text) |->
           DbLine(there.text[i].kind, there.text[i].name, i)]

\* A database as its entries; what stands before the first file is skipped.
AddLine(entries, line) ==
    IF line.kind = "file" THEN Append(entries, <<line>>)
    ELSE IF entries = <<>> THEN <<>>
    ELSE [entries EXCEPT ![Len(entries)] = Append(@, line)]

Entries(lines) ==
    LET read[i \in 0 .. Len(lines)] ==
            IF i = 0 THEN <<>> ELSE AddLine(read[i - 1], lines[i])
    IN  read[Len(lines)]

UpdateDb_First(lines, file, new) ==
    LET old == Entries(lines)
    IN  new \o FlattenSeq(SelectSeq(SubSeq(old, 2, Len(old)), LAMBDA e : e[1].name # file))

UpdateDb(lines, file, new) ==
    LET old == Entries(lines)
        put == [k \in DOMAIN old |-> IF old[k][1].name = file THEN new ELSE old[k]]
    IN  FlattenSeq(put) \o (IF \E k \in DOMAIN old : old[k][1].name = file THEN <<>> ELSE new)

DeleteDb(lines, file) ==
    LET old == Entries(lines)
    IN  FlattenSeq([k \in DOMAIN old |-> IF old[k][1].name = file THEN <<>> ELSE old[k]])

\* A write at an offset: what lies beyond stays, what was never written is a hole.
Overlay(old, offset, new) ==
    [i \in 1..Max({Len(old), offset + Len(new)}) |->
        IF i \in offset + 1..offset + Len(new) THEN new[i - offset]
        ELSE IF i <= Len(old) THEN old[i] ELSE Hole]

\* The directories a name is looked for in, and where on this list it is found.
SearchPath(n) == IF n.dir = Nowhere THEN Path ELSE <<n.dir>>
BuildHtFilename(n) ==
    {k \in DOMAIN SearchPath(n) : disk[<<SearchPath(n)[k], n.file>>].time # 0}

-----------------------------------------------------------------------------
(* A run of htadd.                                                         *)

Ended == {"off", "done", "exited", "killed"}
Adding == {a \in Adders : htadd[a].at \notin Ended}

\* What a run of htadd keeps; of one that has ended, what the properties need.
Idle == [at |-> "off", cmd |-> CHOOSE c \in Uses : TRUE, left |-> <<>>, out |-> <<>>,
         ends |-> FALSE, into |-> 0, from |-> 0, offset |-> 0, before |-> <<>>, alone |-> FALSE]

AtEnd(h, at) == [Idle EXCEPT !.at = at, !.cmd = h.cmd, !.before = h.before, !.alone = h.alone]

OnlyHtadd(a, r) == htadd' = [htadd EXCEPT ![a] = r]

\* main, parse_args and build_db_filename; -n removes the database first.
Start(a) ==
    /\ htadd[a].at = "off"
    /\ \E c \in Uses :
        /\ htadd' = [b \in Adders |->
                IF b = a
                THEN [htadd[b] EXCEPT !.at = "open", !.cmd = c, !.left = c.names,
                        !.before = IF dbInode[c.dir] = 0 THEN <<>> ELSE store[dbInode[c.dir]],
                        !.alone = Adding = {}]
                ELSE [htadd[b] EXCEPT !.alone = FALSE]]
        /\ dbInode' = IF c.op = "fresh" THEN [dbInode EXCEPT ![c.dir] = 0] ELSE dbInode
    /\ past' = [past EXCEPT !.overlapped = @ \/ Adding # {}]
    /\ UNCHANGED <<disk, store, tempInode, clock>>

\* fopen(..., "w"): the inode and the store after it.
OpenedW(inode) == IF inode = 0 THEN <<Len(store) + 1, Append(store, <<>>)>>
                  ELSE <<inode, [store EXCEPT ![inode] = <<>>]>>

TempFileOpen(a, out, ends) ==
    LET opened == OpenedW(tempInode)
    IN  /\ tempInode' = opened[1]
        /\ store' = opened[2]
        /\ OnlyHtadd(a, [htadd[a] EXCEPT !.at = "flush", !.into = opened[1],
                                        !.out = out, !.ends = ends])
        /\ UNCHANGED dbInode

\* The entries before the one that is being replaced: all that is written when
\* htadd gives up in the middle of the new one.
UpToFile(lines, file) ==
    LET old == Entries(lines)
        at == {k \in DOMAIN old : old[k][1].name = file}
    IN  IF at = {} THEN FlattenSeq(old) ELSE FlattenSeq(SubSeq(old, 1, Min(at) - 1))

AddFile(a, n) ==
    LET c == htadd[a].cmd
        found == BuildHtFilename(n)
        d == SearchPath(n)[Min(found)]
        there == disk[<<d, n.file>>]
        new == AddNewPages(n.file, there)
        lines == store[dbInode[c.dir]]
        inode == IF dbInode[c.dir] = 0 THEN Len(store) + 1 ELSE dbInode[c.dir]
    IN  IF found = {} \/ (c.op = "add" /\ dbInode[c.dir] = 0)
        THEN /\ OnlyHtadd(a, AtEnd(htadd[a], "exited"))
             /\ UNCHANGED <<store, dbInode, tempInode, past>>
        ELSE /\ past' = [past EXCEPT !.foreign = @ \/ d # c.dir]
             /\ IF c.op = "add"
                THEN TempFileOpen(a, IF Breaks(there.text) THEN UpToFile(lines, n.file) \o new
                                     ELSE UpdateDb(lines, n.file, new), Breaks(there.text))
                ELSE /\ dbInode' = [dbInode EXCEPT ![c.dir] = inode]
                     /\ store' = IF dbInode[c.dir] = 0 THEN Append(store, <<>>) ELSE store
                     /\ OnlyHtadd(a, [htadd[a] EXCEPT !.at = "flush", !.into = inode,
                                          !.out = new, !.ends = Breaks(there.text)])
                     /\ UNCHANGED tempInode

DeleteFile(a, n) ==
    LET d == htadd[a].cmd.dir
    IN  /\ UNCHANGED past
        /\ IF dbInode[d] = 0
           THEN /\ OnlyHtadd(a, [htadd[a] EXCEPT !.left = Tail(@)])
                /\ UNCHANGED <<store, dbInode, tempInode>>
           ELSE TempFileOpen(a, IF n.dir = Nowhere THEN DeleteDb(store[dbInode[d]], n.file)
                                ELSE FlattenSeq(Entries(store[dbInode[d]])), FALSE)

\* Opens and reads the files of the next name, into the buffer of the output.
NextFile(a) ==
    /\ htadd[a].at = "open"
    /\ htadd[a].left # <<>>
    /\ IF htadd[a].cmd.op = "delete" THEN DeleteFile(a, Head(htadd[a].left))
       ELSE AddFile(a, Head(htadd[a].left))
    /\ UNCHANGED <<disk, clock>>

Finish(a) ==
    /\ htadd[a].at = "open"
    /\ htadd[a].left = <<>>
    /\ OnlyHtadd(a, AtEnd(htadd[a], "done"))
    /\ UNCHANGED <<disk, store, dbInode, tempInode, clock, past>>

\* fclose, or exit: the buffer goes to the temporary file, or to the end of the
\* new database.
Close(a) ==
    LET h == htadd[a]
        fresh == h.cmd.op = "fresh"
    IN  /\ h.at = "flush"
        /\ store' = [store EXCEPT ![h.into] = IF fresh THEN @ \o h.out ELSE Overlay(@, 0, h.out)]
        /\ OnlyHtadd(a, [h EXCEPT !.out = <<>>, !.left = IF fresh THEN Tail(@) ELSE @,
                            !.at = IF h.ends THEN "exited" ELSE IF fresh THEN "open" ELSE "copy"])
        /\ UNCHANGED <<disk, dbInode, tempInode, clock, past>>

\* oa_copy_file opens the temporary file by its name and empties the database.
CopyOpen(a) ==
    LET d == htadd[a].cmd.dir
        opened == OpenedW(dbInode[d])
    IN  /\ htadd[a].at = "copy"
        /\ IF tempInode = 0
           THEN /\ OnlyHtadd(a, [htadd[a] EXCEPT !.left = Tail(@),
                            !.at = IF htadd[a].cmd.op = "add" THEN "exited" ELSE "open"])
                /\ UNCHANGED <<store, dbInode>>
           ELSE /\ store' = opened[2]
                /\ dbInode' = [dbInode EXCEPT ![d] = opened[1]]
                /\ OnlyHtadd(a, [htadd[a] EXCEPT !.at = "blocks", !.from = tempInode,
                                              !.into = opened[1], !.offset = 0])
        /\ UNCHANGED <<disk, tempInode, clock, past>>

\* One block; a write that fails ends the copy as its end does.
CopyBlock(a) ==
    LET h == htadd[a]
    IN  /\ h.at = "blocks"
        /\ \/ /\ h.offset < Len(store[h.from])
              /\ LET last == Min({h.offset + Block, Len(store[h.from])})
                 IN  /\ store' = [store EXCEPT ![h.into] =
                            Overlay(@, h.offset, SubSeq(store[h.from], h.offset + 1, last))]
                     /\ OnlyHtadd(a, [h EXCEPT !.offset = last])
              /\ UNCHANGED past
           \/ LET full == h.offset < Len(store[h.from])
              IN  /\ OnlyHtadd(a, [h EXCEPT !.at = "unlink", !.alone = @ /\ ~full])
                  /\ past' = [past EXCEPT !.cut = @ \/ full]
                  /\ UNCHANGED store
        /\ UNCHANGED <<disk, dbInode, tempInode, clock>>

Unlink(a) ==
    /\ htadd[a].at = "unlink"
    /\ tempInode' = 0
    /\ OnlyHtadd(a, [htadd[a] EXCEPT !.at = "open", !.left = Tail(@)])
    /\ UNCHANGED <<disk, store, dbInode, clock, past>>

Kill(a) ==
    /\ a \in Adding
    /\ OnlyHtadd(a, [Idle EXCEPT !.at = "killed"])
    /\ past' = [past EXCEPT !.cut = TRUE]
    /\ UNCHANGED <<disk, store, dbInode, tempInode, clock>>

\* Someone writes a .ht file, perhaps in the very second it was last written.
Edit(k) ==
    /\ clock' \in {clock, clock + 1} \cap 0..MaxTime
    /\ \E text \in Texts :
        /\ text # disk[k].text
        /\ disk' = [disk EXCEPT ![k] = [text |-> text, time |-> clock']]
        /\ past' = [past EXCEPT !.quick = @ \/ disk[k].time = clock', !.edits = @ + 1]
    /\ past.edits < MaxEdits
    /\ htadd' = [a \in Adders |-> [htadd[a] EXCEPT !.alone = FALSE]]
    /\ UNCHANGED <<store, dbInode, tempInode>>

-----------------------------------------------------------------------------
(* HyperDoc reads the databases and looks up pages.                        *)

\* The table maps [kind, name] to [dir, file, at]; "file" is the file whose
\* lines are being read, or "none", "skipped".
Known(line) == [kind |-> line.kind, name |-> line.name]

ReadHead(r, d, line) ==
    LET full == <<d, line.name>>
    IN  IF full \in r.seen THEN [r EXCEPT !.file = "skipped"]
        ELSE IF disk[full].time = 0 \/ (r.verify /\ disk[full].time > line.at)
             THEN [r EXCEPT !.at = "exited"]
             ELSE [r EXCEPT !.seen = @ \union {full}, !.file = line.name]

ReadEntry(r, d, line) ==
    LET key == Known(line)
        listed == [dir |-> d, file |-> r.file, at |-> line.at]
    IN  IF key \in DOMAIN r.table THEN r
        ELSE [r EXCEPT !.table = [k \in DOMAIN @ \union {key} |->
                                     IF k = key THEN listed ELSE r.table[k]]]

ReadLine(r, d, line) ==
    IF r.at = "exited" THEN r
    ELSE IF line.kind = "file" THEN ReadHead(r, d, line)
    ELSE IF r.file \in {"none", "skipped"} THEN r
    ELSE IF line.kind \in Kinds THEN ReadEntry(r, d, line)
    ELSE [r EXCEPT !.at = "exited"]

ReadHtFile(r, d) ==
    LET lines == store[dbInode[d]]
        read[i \in 0 .. Len(lines)] ==
            IF i = 0 THEN [r EXCEPT !.file = "none"] ELSE ReadLine(read[i - 1], d, lines[i])
    IN  read[Len(lines)]

\* The next directory of HTPATH, which may have no database.
DbFileOpen(r, d) == IF r.at = "exited" \/ dbInode[d] = 0 THEN r ELSE ReadHtFile(r, d)

\* HyperDoc reads them when it starts and is not heard of again, so it is no
\* variable: the table it gets is a function of the disk it starts on.
ReadHtDb(verify) ==
    LET start == [at |-> IF \A d \in Dirs : dbInode[d] = 0 THEN "exited" ELSE "up",
                  verify |-> verify, seen |-> {}, file |-> "none", table |-> <<>>]
        read[k \in 0 .. Len(Path)] ==
            IF k = 0 THEN start ELSE DbFileOpen(read[k - 1], Path[k])
    IN  read[Len(Path)]

\* What HyperDoc finds when it loads a page, a macro or a patch: find_fp takes
\* the file by its full name and seeks to the place.
FindFp(places, key) ==
    LET e == places[key]
        text == disk[<<e.dir, e.file>>].text
    IN  IF e.at \in DOMAIN text THEN text[e.at] ELSE [kind |-> "nothing", name |-> "nothing"]

-----------------------------------------------------------------------------
(* hthits on the database of directory d, run there: the slices of the     *)
(* files it searches as pages.                                             *)

\* handleFile: a page ends where the next entry begins, the last at the end.
HandleFile_PagesOnly(entry, size) ==
    LET pages == {i \in DOMAIN entry : entry[i].kind = "page"}
        end(i) == IF \E j \in pages : j > i THEN entry[Min({j \in pages : j > i})].at ELSE size + 1
    IN  {[name |-> entry[i].name, start |-> entry[i].at, size |-> end(i) - entry[i].at] :
            i \in pages}

HandleFile(entry, size) ==
    LET end(i) == IF i < Len(entry) THEN entry[i + 1].at ELSE size + 1
    IN  {[name |-> entry[i].name, start |-> entry[i].at, size |-> end(i) - entry[i].at] :
            i \in {j \in DOMAIN entry : entry[j].kind = "page"}}

\* handlePage: the definitions a slice holds.
HandlePage(text, p) == SubSeq(text, p.start, p.start + p.size - 1)

\* handleHtdb: one file after the other; a file that is not there ends it.
Hthits(d) ==
    LET listed == Entries(store[dbInode[d]])
        there(k) == disk[<<d, listed[k][1].name>>]
    IN  [exits |-> \E k \in DOMAIN listed : there(k).time = 0,
         slices |-> [k \in DOMAIN listed |-> HandleFile(listed[k], Len(there(k).text))]]

-----------------------------------------------------------------------------
\* A database htadd has made of files of its directory.
Made(d, files) == FlattenSeq([k \in DOMAIN files |-> AddNewPages(files[k], disk[<<d, files[k]>>])])

DatabaseInit ==
    /\ \E texts \in Disks :
        disk = [k \in Dirs \X Files |->
                   [text |-> texts[k], time |-> IF texts[k] = <<>> THEN 0 ELSE 1]]
    /\ \E d \in Dirs, files \in {SetToSeq(fs) : fs \in SUBSET Files} :
        /\ \A k \in DOMAIN files :
            disk[<<d, files[k]>>].time # 0 /\ ~Breaks(disk[<<d, files[k]>>].text)
        /\ store = <<Made(d, files)>>
        /\ dbInode = [e \in Dirs |-> IF e = d THEN 1 ELSE 0]
    /\ tempInode = 0
    /\ htadd = [a \in Adders |-> Idle]
    /\ clock = 1
    /\ past = [overlapped |-> FALSE, foreign |-> FALSE, cut |-> FALSE, quick |-> FALSE,
               edits |-> 0]

DatabaseNext ==
    \/ \E a \in Adders :
        \/ Start(a) \/ NextFile(a) \/ Finish(a) \/ Close(a)
        \/ CopyOpen(a) \/ CopyBlock(a) \/ Unlink(a) \/ Kill(a)
    \/ \E k \in Edited : Edit(k)

DatabaseSpec == DatabaseInit /\ [][DatabaseNext]_databaseVars

-----------------------------------------------------------------------------
(* Properties.                                                             *)

Database(d) == IF dbInode[d] = 0 THEN <<>> ELSE store[dbInode[d]]
ListingsOf(lines, f) == {e \in Range(Entries(lines)) : e[1].name = f}
NamesOf(c) == {c.names[k].file : k \in DOMAIN c.names}

\* htadd replaces the listings of the files it is given and no other: a run that
\* was not killed, met no other htadd, no edit and no full disk leaves every other
\* listing of the database as it was, also when it gives up, and one that comes to
\* its end leaves one listing of each file it added and none of a file it deleted.
\* The database is rewritten through a file of a fixed name, which is what the
\* exceptions are about.
OthersKept ==
    \A a \in Adders :
        LET h == htadd[a]
            now == Database(h.cmd.dir)
        IN  (h.alone /\ h.at \in {"done", "exited"} /\ h.cmd.op # "fresh") =>
                /\ \A f \in Files \ NamesOf(h.cmd) : ListingsOf(now, f) = ListingsOf(h.before, f)
                /\ h.at = "done" => \A k \in DOMAIN h.cmd.names :
                    LET n == h.cmd.names[k]
                    IN  IF h.cmd.op = "add" THEN Cardinality(ListingsOf(now, n.file)) = 1
                        ELSE n.dir = Nowhere => ListingsOf(now, n.file) = {}

\* A HyperDoc started now finds each page, macro and patch where its table says it
\* is, however far a htadd has got and whether or not one was killed, provided it
\* checks the dates or nobody has edited a file, the files listed are those of the
\* directory of their database, no two htadds met (they share the temporary file
\* and mix their lines), and no file was edited twice in a second.
FoundWhereListed ==
    (~past.foreign /\ ~past.overlapped /\ ~past.quick) =>
        \A verify \in {TRUE, past.edits # 0} :
            LET r == ReadHtDb(verify)
            IN  r.at = "up" => \A key \in DOMAIN r.table : FindFp(r.table, key) = key

\* What read_ht_file does not skip.
FirstListings(listed) ==
    {n \in DOMAIN listed : \A m \in 1 .. n - 1 : listed[m][1].name # listed[n][1].name}

\* Of two directories that define the same page HyperDoc shows the page of the one
\* that comes first in HTPATH: no database before the one a table entry comes from
\* lists its name, but in another listing of a file it lists before.
FirstOnThePath ==
    LET r == ReadHtDb(FALSE)
    IN  r.at = "up" =>
            \A key \in DOMAIN r.table, k, j \in DOMAIN Path :
                (Path[k] = r.table[key].dir /\ j < k) =>
                    LET listed == Entries(Database(Path[j]))
                    IN  \A n \in FirstListings(listed) : \A i \in DOMAIN listed[n] :
                            Known(listed[n][i]) # key

\* What HyperDoc starts with: every page where it is listed, from the right directory.
PagesAreFound == FoundWhereListed /\ FirstOnThePath

\* hthits takes each page of an unchanged file from where it starts to where the
\* next definition starts, and so never counts a hit of another page or of a macro
\* (in a file htadd gave up on, the last slice goes to the end);
\* a file that was edited after it was listed may give a slice of negative length.
HitsArePages ==
    \A d \in Dirs :
        (/\ dbInode[d] # 0 /\ ~past.overlapped /\ ~past.foreign /\ ~past.cut
         /\ past.edits = 0 /\ Adding = {}) =>
            LET hits == Hthits(d)
                listed == Entries(Database(d))
            IN  /\ ~hits.exits
                /\ \A k \in DOMAIN listed : \A p \in hits.slices[k] :
                    LET text == disk[<<d, listed[k][1].name>>].text
                        page == <<[kind |-> "page", name |-> p.name]>>
                    IN  IF Breaks(text) THEN IsPrefix(page, HandlePage(text, p))
                        ELSE HandlePage(text, p) = page

\* What the databases say is true: HyperDoc (find_fp) and hthits (handlePage) both
\* come to the page that is listed, the one by a place, the other by two of them.
PlacesAreRight == PagesAreFound /\ HitsArePages
=============================================================================
