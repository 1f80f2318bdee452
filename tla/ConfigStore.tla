---------------------------- MODULE ConfigStore -----------------------------
(***************************************************************************)
(* The settings file: config_load() and config_set() of src/src/config.c.  *)
(* config_set() is one action for each call into the kernel that can fail, *)
(* and between any two of them the process can be killed, the power can    *)
(* fail, and somebody can edit the file.  The file is small, so stdio      *)
(* reads it at once: Copy has all of it, or what came before an error.     *)
(*                                                                         *)
(* A line is a setting, or anything else: a comment, a blank line, a key   *)
(* that xlogin does not set, something the parser does not understand.     *)
(***************************************************************************)
EXTENDS Naturals, Sequences, FiniteSetsExt

CONSTANTS
    Users,      \* the names config_valid_username() accepts
    Images,     \* names of background images
    Unsafe,     \* those a pair of single quotes cannot hold
    Rest,       \* the lines that are no settings
    Header,     \* the comment of a first write
    Empty,      \* no value
    Garbled,    \* a line that another was written into
    NoFile,     \* there is no file
    Torn,       \* a file of which some blocks never reached the disk
    Files,      \* what the file starts as, and what editors leave
    Size(_),    \* the bytes of a line
    Limit       \* CFG_MAX_BYTES

Keys   == {"autologin", "background"}
Values == Users \cup Images \cup {Empty, Garbled}

\* seen: config_load() understands the line; with a blank before its "=" only
\* config_set() does.
Line == [key : Keys, seen : BOOLEAN, val : Values]
          \cup [key : {"other"}, seen : {FALSE}, val : Rest \cup {Header, Garbled}]

\* whole: the last line ends with a newline.  trusted: root's, and written by
\* nobody else.
File == [lines : Seq(Line), whole : BOOLEAN, trusted : BOOLEAN]

ASSUME FilesAssumption == Files \subseteq File \cup {NoFile}
ASSUME ValuesAssumption == /\ Empty \notin Users \cup Images
                           /\ Unsafe \subseteq Images
                           /\ Users \cap Images = {}
ASSUME MarksAssumption == /\ NoFile \notin File /\ Torn \notin File
                          /\ NoFile # Torn

VARIABLES
    file,     \* what the path names now
    disk,     \* what it names after a power cut, if the rename was lost
    synced,   \* the blocks of file are on the disk
    tmp,      \* the temporary file, or NoFile
    flushed,  \* the blocks of tmp are on the disk
    step,     \* what config_set() does next; "idle" when it is not running
    key,      \* its arguments
    value,
    result,   \* what it returned: "ok" for 0, "failed" and "refused" below 0
    before,   \* history: the file when config_set() was called
    rival,    \* history: somebody else has written the file since
    unread,   \* history: config_set() could not read all of the file
    killed    \* history: config_set() was once cut short

store == <<file, disk, synced>>
temp  == <<tmp, flushed>>
call  == <<key, value, before>>
notes == <<rival, unread, killed>>
vars  == <<store, temp, step, call, result, notes>>

Contents == File \cup {NoFile, Torn}

TypeOK ==
    /\ {file, disk, tmp, before} \subseteq Contents
    /\ synced \in BOOLEAN /\ flushed \in BOOLEAN
    /\ step \in {"idle", "create", "copy", "sync", "rename", "dirsync"}
    /\ key \in Keys /\ value \in Values
    /\ result \in {"none", "ok", "failed", "refused"}
    /\ rival \in BOOLEAN /\ unread \in BOOLEAN /\ killed \in BOOLEAN

Init ==
    /\ file \in Files /\ disk = file /\ synced = TRUE
    /\ tmp = NoFile /\ flushed = FALSE /\ step = "idle"
    /\ key = "background" /\ value = Empty /\ before = file
    /\ result = "none"
    /\ rival = FALSE /\ unread = FALSE /\ killed = FALSE

-----------------------------------------------------------------------------
(* Reading.                                                                *)

IsSetting(l, k) == l.key = k
Settings(ls, k) == {i \in 1 .. Len(ls) : IsSetting(ls[i], k)}

\* A user is honoured only if the name is one and the file is to be trusted.
Honoured(k, v, trusted) ==
    IF k = "autologin" /\ ~(trusted /\ v \in Users) THEN Empty ELSE v

\* What is left of a file behind CFG_MAX_BYTES is not read.
Bytes(ls, i) == MapThenSumSet(LAMBDA j : Size(ls[j]), 1 .. i)
Read(ls, i)  == Bytes(ls, i) <= Limit

\* The lines of k that config_load() understands.
Looked(f, k) == {i \in Settings(f.lines, k) : Read(f.lines, i) /\ f.lines[i].seen}

\* config_load(): the last of them counts.
Loaded(f, k) ==
    IF f \notin {NoFile, Torn} /\ Looked(f, k) # {}
      THEN Honoured(k, f.lines[Max(Looked(f, k))].val, f.trusted)
      ELSE Empty

-----------------------------------------------------------------------------
(* Writing.                                                                *)

\* Fault: name and value are written the wrong way round.
FaultySetting(k, v) == [key |-> v, seen |-> TRUE, val |-> k]

\* The line that config_set() writes.
Setting(k, v) == [key |-> k, seen |-> TRUE, val |-> v]

\* A line written behind one that has no newline becomes the end of it.
Appended(f, l) ==
    IF f.whole \/ f.lines = <<>>
      THEN Append(f.lines, l)
      ELSE [f.lines EXCEPT ![Len(f.lines)].val = Garbled]

\* Fault: the last line of the key is left out, the new one comes at the end.
FaultyRewritten(f, k, v) ==
    [lines   |-> Append(SelectSeq(f.lines, LAMBDA l : l.key = "other"),
                        Setting(k, v)),
     whole   |-> TRUE, trusted |-> TRUE]

\* Fault: the new file gets the owner and the mode of the old one.
FaultyTrusted(f) == f.trusted

\* What mkstemp() and fchmod() make is root's, with mode 0644.
Trusted(f) == TRUE

\* The loop of config_set(): the first line of the key is replaced, or else
\* one is added.
Rewritten(f, k, v) ==
    LET at == Settings(f.lines, k)
    IN  IF at = {}
          THEN [lines |-> Appended(f, Setting(k, v)),
                whole |-> TRUE, trusted |-> Trusted(f)]
          ELSE [lines   |-> [f.lines EXCEPT ![Min(at)] = Setting(k, v)],
                whole   |-> f.whole \/ Min(at) = Len(f.lines),
                trusted |-> Trusted(f)]

\* What a file starts with when config_set() finds none.
FirstFile == [lines   |-> <<[key |-> "other", seen |-> FALSE, val |-> Header]>>,
              whole   |-> TRUE, trusted |-> TRUE]

EmptyFile == [lines |-> <<>>, whole |-> TRUE, trusted |-> TRUE]

Prefix(f, n) == [f EXCEPT !.lines = SubSeq(f.lines, 1, n), !.whole = TRUE]

Blank(f) == f \in {NoFile, Torn}

\* What is read of a file, or taken for it when there is none.
Start(f) == IF Blank(f) THEN FirstFile ELSE f

\* What is read of one that cannot be opened, or not be read to its end.
Parts(f) == IF Blank(f) THEN {}
            ELSE {FirstFile} \cup {Prefix(f, n - 1) : n \in 1 .. Len(f.lines)}

Arguments == {"autologin"} \X (Users \cup {Empty})
               \cup {"background"} \X (Images \cup {Empty})

\* App calls it: with a user who has just logged in, with the name of an image
\* of the directory, or with nothing.
Call == \E arg \in Arguments :
    /\ step = "idle"
    /\ key' = arg[1] /\ value' = arg[2] /\ before' = file
    /\ rival' = FALSE /\ unread' = FALSE
    /\ IF arg[2] \in Unsafe THEN step' = "idle" /\ result' = "refused"
                            ELSE step' = "create" /\ result' = "none"
    /\ UNCHANGED <<store, temp, killed>>

\* Fault: the temporary file is not removed.
FaultyDiscard == UNCHANGED tmp

\* unlink() of the temporary file.
Discard == tmp' = NoFile

\* Every failure before the rename is done.
Fail == /\ step' = "idle" /\ result' = "failed"
        /\ Discard /\ flushed' = FALSE
        /\ UNCHANGED <<store, call, notes>>

\* mkstemp(), fchmod() and fdopen().
Create ==
    /\ step = "create"
    /\ \/ /\ step' = "copy"
          /\ tmp' = EmptyFile /\ flushed' = FALSE
          /\ UNCHANGED <<store, call, result, notes>>
       \/ Fail

\* fopen() and the loop.  A file that cannot be opened is taken for none, and
\* one that cannot be read further for one that ends there.
Copy ==
    /\ step = "copy"
    /\ \/ /\ step' = "sync"
          /\ \/ tmp' = Rewritten(Start(file), key, value) /\ UNCHANGED unread
             \/ /\ \E p \in Parts(file) : tmp' = Rewritten(p, key, value)
                /\ unread' = TRUE
          /\ UNCHANGED <<store, flushed, call, result, rival, killed>>
       \/ Fail

\* Fault: the data is handed to the kernel and not waited for.
FaultyFlush == UNCHANGED flushed

\* fsync().
Flush == flushed' = TRUE

\* fflush(), fsync() and fclose().
Sync ==
    /\ step = "sync"
    /\ \/ /\ step' = "rename"
          /\ Flush
          /\ UNCHANGED <<store, tmp, call, result, notes>>
       \/ Fail

\* Until the directory is written too, a power cut may undo the rename, and
\* one before it.
Rename ==
    /\ step = "rename"
    /\ \/ /\ step' = "dirsync"
          /\ file' = tmp /\ synced' = flushed /\ disk' \in {disk, file}
          /\ tmp' = NoFile /\ flushed' = FALSE
          /\ UNCHANGED <<call, result, notes>>
       \/ Fail

\* Fault: what comes after the rename can still fail the call.
FaultyReturned(done) == IF done THEN "ok" ELSE "failed"

\* A failure here is only logged.
Returned(done) == "ok"

\* fsync() of the directory.
DirSync == \E done \in BOOLEAN :
    /\ step = "dirsync"
    /\ step' = "idle" /\ result' = Returned(done)
    /\ disk' = IF done THEN file ELSE disk
    /\ UNCHANGED <<file, synced, temp, call, notes>>

-----------------------------------------------------------------------------
(* The world.                                                              *)

\* Somebody edits the file, or install.sh writes it, and waits for the disk.
Edit == \E f \in Files :
    /\ f # file
    /\ file' = f /\ disk' = f /\ synced' = TRUE
    /\ rival' = TRUE
    /\ UNCHANGED <<temp, step, call, result, unread, killed>>

\* The call in progress, and what is noted of the last one, are gone.
Dies == /\ step' = "idle" /\ result' = "none" /\ killed' = TRUE
        /\ before' = file'
        /\ rival' = FALSE /\ unread' = FALSE
        /\ UNCHANGED <<temp, key, value>>

\* The process is killed, and leaves its temporary file behind.
Kill ==
    /\ step # "idle"
    /\ UNCHANGED store
    /\ Dies

\* The machine loses its power.
PowerCut ==
    /\ file' \in {disk, IF synced THEN file ELSE Torn}
    /\ disk' = file' /\ synced' = TRUE
    /\ Dies

Set  == Create \/ Copy \/ Sync \/ Rename \/ DirSync
Next == Call \/ Set \/ Edit \/ Kill \/ PowerCut

Spec == Init /\ [][Next]_vars

-----------------------------------------------------------------------------
(* Properties.                                                             *)

\* config.h, "writes are atomic": neither a kill nor a power cut, at any call
\* of config_set(), leaves a file that is not the old or the new one, whole.
NeverTorn == file # Torn

\* A failure that is reported has changed nothing: App puts the tick back
\* into the box on the strength of it.
FailureHonest ==
    step = "idle" /\ result \in {"failed", "refused"} /\ ~rival
        => file = before

\* Nothing is left behind in /etc but by a kill or a power cut.
NoLitter == step = "idle" /\ ~killed => tmp = NoFile

\* The inductive invariant: a file that has a name is whole and on the disk,
\* one that is about to get it too, and until then nothing has happened.
Whole == File \cup {NoFile}

FilesInv == {file, disk, tmp, before} \subseteq Whole /\ synced

StepInv ==
    /\ step \in {"copy", "sync", "rename"} => tmp \in File
    /\ step = "rename" => flushed
    /\ step \in {"create", "copy", "sync", "rename"} /\ ~rival => file = before
    /\ step \in {"idle", "create", "dirsync"} /\ ~killed => tmp = NoFile

\* What config_set() makes of the file that was there when it was called.
Wrote(f) == IF unread THEN \E p \in Parts(before) : f = Rewritten(p, key, value)
                      ELSE f = Rewritten(Start(before), key, value)

WriteInv ==
    /\ <<key, value>> \in Arguments
    /\ step \in {"create", "copy"} => ~unread
    /\ step \in {"sync", "rename"} /\ ~rival => Wrote(tmp)
    /\ step = "dirsync" \/ (step = "idle" /\ result = "ok") =>
          rival \/ Wrote(file)

IInv == FilesInv /\ StepInv /\ FailureHonest /\ WriteInv

\* config_set() has succeeded and has had the file to itself.
Succeeded == step = "idle" /\ result = "ok" /\ ~rival

\* A line is added to one without a newline.
Joins(f, k) == ~Blank(f) /\ ~f.whole /\ f.lines # <<>> /\ Settings(f.lines, k) = {}

Once(f, k) == ~Blank(f) => \A i, j \in Settings(f.lines, k) : i = j

\* All of the file is read.
Fits(f) == ~Blank(f) => \A i \in 1 .. Len(f.lines) : Read(f.lines, i)

\* What was set is what the next start loads: if nobody else wrote the file
\* meanwhile, if what was there had the key at most once and ended with a
\* newline (or had the key), and if what is there now is short enough to be
\* read to its end.  The old file need not be root's, nor readable.
SetIsLoaded ==
    Succeeded /\ Once(before, key) /\ ~Joins(before, key) /\ Fits(file)
        => Loaded(file, key) = value

\* The lines that are not of k, each with the number of such lines before it.
Others(f, k) ==
    LET at == {i \in 1 .. Len(f.lines) : ~IsSetting(f.lines[i], k)}
    IN  {<<Cardinality({j \in at : j < i}), f.lines[i]>> : i \in at}

\* config.h, "unknown keys are preserved": if config_set() could read all of
\* the file, and nobody else wrote it meanwhile, and it ended with a newline
\* (or had the key), then every line that is not of the key is there
\* afterwards, in its order.  If both files are short enough to be read to
\* their ends, the other setting is loaded as it would have been from root's
\* file: the new file is root's whoever had the old one, so that from then on
\* a name is honoured which config_load() ignored before.
OthersKept ==
    Succeeded /\ ~unread /\ ~Joins(before, key) =>
        /\ Others(file, key) = Others(Start(before), key)
        /\ Fits(before) /\ Fits(file) => \A k \in Keys \ {key} :
              Loaded(file, k) = Loaded([Start(before) EXCEPT !.trusted = TRUE], k)

\* config.h, "rewrite one key in place, preserving every other line", without
\* the proviso.
EveryOtherLine ==
    Succeeded /\ ~unread /\ ~Blank(before) /\ Once(before, key)
        => Others(file, key) = Others(before, key)
=============================================================================
