----------------------------- MODULE SourceCustody -----------------------------
(***************************************************************************)
(* Custody of the source files of a bundle: inspect_source_bundle,         *)
(* inspect_source_bundle_media_bytes and require_source_custody_match of   *)
(* cad_agent/source_integrity.py.                                          *)
(*                                                                         *)
(* Kept: every open, read and look at a path as a step of its own, while   *)
(* others rename, replace and write the files.  A handle shares reading    *)
(* and deleting but not writing, so bytes change under it only through a   *)
(* view a writer mapped before.                                            *)
(* Abstracted: a path names an object or nothing; a SHA-256 is the bytes,  *)
(* an identity token the object; sizes do not tell bytes apart; reparse    *)
(* points, limits and the four media parsers are reasons to refuse.        *)
(***************************************************************************)
EXTENDS Naturals

CONSTANTS
    Sources,    \* source_id of the declared items
    Objects,    \* files: volume serial and file id
    MaxEvents   \* bound: what others do to the files

Contents == {"one", "two"}

VARIABLES
    at,         \* the object each declared path names, if any
    bytes,
    mapped,     \* objects of which a writer holds a mapped view
    declared,   \* sha256 of the source bundle
    readable,   \* the contents the parser of the declared media type accepts
    \* the inspection
    call,       \* which function runs
    pc,
    current,    \* the item being inspected, if any
    object,     \* file_object_identity_token, by source
    seen,       \* first_sha, and the bytes captured with it
    facts,      \* the bytes the media metadata were read from
    \* what the calls returned
    custody,    \* the last custody record
    accepted,   \* the custody record the last match accepted
    events,
    wavered     \* history: how often the object of a source was written under its handle

files == <<at, bytes, mapped>>
bundle == <<declared, readable>>
found == <<object, seen, facts>>
returned == <<custody, accepted>>
histories == <<events, wavered>>
vars == <<files, bundle, call, pc, current, found, returned, histories>>

Calls == {"bytes", "media", "match"}
Nothing == [s \in Sources |-> {}]

Init ==
    /\ at \in [Sources -> {{o} : o \in Objects}]
    /\ bytes \in [Objects -> Contents]
    /\ mapped = {}
    /\ declared \in [Sources -> Contents]
    /\ readable \in {{"one"}, Contents}
    /\ call = "bytes" /\ pc = "idle" /\ current = {}
    /\ object = Nothing /\ seen = Nothing /\ facts = Nothing
    /\ custody = {} /\ accepted = {}
    /\ events = 0 /\ wavered = [s \in Sources |-> 0]

-----------------------------------------------------------------------------
(* Custody records *)

Many(S) == \E x, y \in S : x # y

States == {"VERIFIED", "DUPLICATE_BYTES", "SAME_FILE_ALIAS"}
Eligible == {"VERIFIED", "DUPLICATE_BYTES"}

\* _derive_groups: sources that are one object, and of the others those of
\* equal bytes.
AliasGroup(s) == {t \in Sources : object[t] = object[s]}
Aliased == {s \in Sources : Many(AliasGroup(s))}
Duplicates(s) == {t \in Sources \ Aliased : seen[t] = seen[s]}

GroupOf(type, members) ==
    [type |-> type, members |-> members,
     sha |-> CHOOSE c \in Contents : \A t \in members : seen[t] = {c},
     tokens |-> UNION {object[t] : t \in members}]

AliasGroups ==
    {GroupOf("SAME_FILE_ALIAS", AliasGroup(s)) : s \in Aliased}
        \cup {GroupOf("DUPLICATE_BYTES", Duplicates(s)) :
                 s \in {t \in Sources \ Aliased : Many(Duplicates(t))}}

\* IDENTITY_CHANGED: one object was read with different bytes.
IdentityIsStable == \A s, t \in Sources : object[s] = object[t] => seen[s] = seen[t]

StateOf(s, groups) ==
    IF \E g \in groups : s \in g.members
    THEN (CHOOSE g \in groups : s \in g.members).type
    ELSE "VERIFIED"

\* _task3_complete_custody. The limits of the parsers are part of the root
\* configuration of a custody with media facts.
Complete(context) ==
    LET state == [s \in Sources |-> StateOf(s, AliasGroups)]
    IN  [context |-> context, declared |-> declared, object |-> object, observed |-> seen,
         state |-> state, groups |-> AliasGroups,
         status |-> IF \A s \in Sources : state[s] \in Eligible THEN "READY" ELSE "BLOCKED"]

\* _validate_custody_item
ItemHolds(c, s) == c.state[s] \in Eligible => c.observed[s] = {c.declared[s]}

\* _validate_alias_groups
GroupHolds(g) ==
    /\ Many(g.members)
    /\ g.type = "SAME_FILE_ALIAS" => g.tokens # {} /\ ~Many(g.tokens)
    /\ g.type = "DUPLICATE_BYTES" => Many(g.tokens)

\* validate_source_custody; duplicates have as many tokens as members.
GroupFits(c, g) ==
    /\ \A s \in g.members : c.state[s] = g.type /\ c.observed[s] = {g.sha}
    /\ g.tokens = UNION {c.object[s] : s \in g.members}
    /\ g.type = "DUPLICATE_BYTES" =>
          \A s, t \in g.members : s # t => c.object[s] # c.object[t]

StatusFits(c) == c.status = "READY" <=> \A s \in Sources : c.state[s] \in Eligible

CustodyHolds(c) ==
    /\ \A s \in Sources : ItemHolds(c, s)
    /\ \A s \in Sources : c.state[s] # "VERIFIED" => \E g \in c.groups : s \in g.members
    /\ \A g \in c.groups : GroupHolds(g) /\ GroupFits(c, g)
    /\ \A g, h \in c.groups : g # h => g.members \cap h.members = {}
    /\ StatusFits(c)

-----------------------------------------------------------------------------
(* The inspection of one item *)

Inspects(step, s) == pc = step /\ current = {s}
HandleOf(s) == CHOOSE o \in Objects : object[s] = {o}
Read(s) == bytes[HandleOf(s)]

Begin(c) ==
    /\ pc = "idle"
    /\ call' = c /\ pc' = "next"
    /\ object' = Nothing /\ seen' = Nothing /\ facts' = Nothing
    /\ wavered' = [s \in Sources |-> 0]
    /\ custody' = {} /\ accepted' = {}
    /\ UNCHANGED <<files, bundle, current, events>>

\* check_no_reparse, open_source and the first snapshot. An open fails while
\* a writer has the file open; a mapped view alone does not stop it.
Open(s) ==
    /\ pc = "next" /\ object[s] = {} /\ at[s] # {}
    /\ object' = [object EXCEPT ![s] = at[s]]
    /\ current' = {s} /\ pc' = "hash"
    /\ UNCHANGED <<files, bundle, call, seen, facts, returned, histories>>

\* _stream_handle_sha256 in inspect_source_bundle: one read, compared with
\* the declared hash when the item is recorded.
HashOnce(s) ==
    /\ Inspects("hash", s) /\ call # "media"
    /\ seen' = [seen EXCEPT ![s] = {Read(s)}]
    /\ pc' = "reopen"
    /\ UNCHANGED <<files, bundle, call, current, object, facts, returned, histories>>

\* With media facts the bytes are captured and compared at once, and read on.
Hash(s) ==
    /\ Inspects("hash", s) /\ call = "media"
    /\ Read(s) = declared[s]
    /\ seen' = [seen EXCEPT ![s] = {Read(s)}]
    /\ pc' = "parser"
    /\ UNCHANGED <<files, bundle, call, current, object, facts, returned, histories>>

\* The parser's own handle (ReOpenFile) must give the same hash ...
ParserHash(s) ==
    /\ Inspects("parser", s)
    /\ {Read(s)} = seen[s]
    /\ pc' = "observe"
    /\ UNCHANGED <<files, bundle, call, current, found, returned, histories>>

\* ... and is then read once more for the metadata.
Observe(s) ==
    /\ Inspects("observe", s)
    /\ Read(s) \in readable
    /\ facts' = [facts EXCEPT ![s] = {Read(s)}]
    /\ pc' = "hash again"
    /\ UNCHANGED <<files, bundle, call, current, object, seen, returned, histories>>

\* Mutant: what was read first is not read again.
HashAgainUnread(s) ==
    /\ Inspects("hash again", s)
    /\ pc' = "reopen"
    /\ UNCHANGED <<files, bundle, call, current, found, returned, histories>>

\* CHANGED_DURING_READ
HashAgain(s) ==
    /\ Inspects("hash again", s)
    /\ {Read(s)} = seen[s]
    /\ pc' = "reopen"
    /\ UNCHANGED <<files, bundle, call, current, found, returned, histories>>

\* IDENTITY_CHANGED_REPLACED: the item is recorded only while its path still
\* names the object that was read; without media facts the declared hash is
\* compared now.
StillThere(s) == at[s] = object[s]

RecordBytes(s) ==
    /\ Inspects("reopen", s) /\ call # "media"
    /\ StillThere(s)
    /\ seen[s] = {declared[s]}
    /\ current' = {} /\ pc' = "next"
    /\ UNCHANGED <<files, bundle, call, found, returned, histories>>

RecordMedia(s) ==
    /\ Inspects("reopen", s) /\ call = "media"
    /\ StillThere(s)
    /\ facts[s] # {}
    /\ current' = {} /\ pc' = "next"
    /\ UNCHANGED <<files, bundle, call, found, returned, histories>>

\* Whichever check fails or call raises, nothing is returned.
Refuse ==
    /\ pc # "idle"
    /\ pc' = "idle" /\ current' = {}
    /\ object' = Nothing /\ seen' = Nothing /\ facts' = Nothing
    /\ UNCHANGED <<files, bundle, call, returned, histories>>

AllRecorded == pc = "next" /\ current = {} /\ \A s \in Sources : seen[s] # {}

\* A custody record. Only inspect_source_bundle_media completes one itself; a
\* record of inspect_source_bundle is completed by its caller.
Finish ==
    /\ AllRecorded /\ call # "match"
    /\ IdentityIsStable
    /\ CustodyHolds(Complete(call))
    /\ custody' = {Complete(call)} /\ pc' = "idle"
    /\ UNCHANGED <<files, bundle, call, current, found, accepted, histories>>

\* require_source_custody_match: whatever valid record the caller holds is
\* compared with a fresh inspection under the limits without the parsers'.
Matches(c) ==
    /\ c.context = "bytes"
    /\ c.declared = declared /\ c.object = object /\ c.observed = seen
    /\ c.groups = AliasGroups

FinishMatch ==
    /\ AllRecorded /\ call = "match"
    /\ IdentityIsStable
    /\ \E context \in {"bytes", "media"}, state \in [Sources -> States],
          status \in {"READY", "BLOCKED"}, groups \in {{}, AliasGroups} :
         LET c == [Complete(context) EXCEPT !.state = state, !.status = status, !.groups = groups]
         IN  CustodyHolds(c) /\ Matches(c) /\ accepted' = {c}
    /\ pc' = "idle"
    /\ UNCHANGED <<files, bundle, call, current, found, custody, histories>>

-----------------------------------------------------------------------------
(* What others do to the files meanwhile *)

Event == events < MaxEvents /\ events' = events + 1

\* Sources whose handle is open on an object.
Open_(o) == {s \in current : object[s] = {o}}

\* A path is deleted, or names another object (renames, hard links, moves).
Rename(s) ==
    /\ Event
    /\ at' \in {[at EXCEPT ![s] = os] : os \in {{}} \cup {{o} : o \in Objects}}
    /\ at' # at
    /\ UNCHANGED <<bytes, mapped, bundle, call, pc, current, found, returned, wavered>>

\* A writer opens a file, which nobody inspects, and maps it.
Map(o) ==
    /\ Event
    /\ o \notin mapped /\ Open_(o) = {}
    /\ mapped' = mapped \cup {o}
    /\ UNCHANGED <<at, bytes, bundle, call, pc, current, found, returned, wavered>>

\* A file is written: in place while nobody inspects it, or through a view.
Write(o) ==
    /\ Event
    /\ Open_(o) = {} \/ o \in mapped
    /\ \E c \in Contents \ {bytes[o]} : bytes' = [bytes EXCEPT ![o] = c]
    /\ wavered' = [s \in Sources |-> wavered[s] + (IF s \in Open_(o) THEN 1 ELSE 0)]
    /\ UNCHANGED <<at, mapped, bundle, call, pc, current, found, returned>>

Next ==
    \/ \E c \in Calls : Begin(c)
    \/ \E s \in Sources :
         \/ Open(s) \/ HashOnce(s) \/ Hash(s) \/ ParserHash(s) \/ Observe(s) \/ HashAgain(s)
         \/ RecordBytes(s) \/ RecordMedia(s) \/ Rename(s)
    \/ Refuse \/ Finish \/ FinishMatch
    \/ \E o \in Objects : Map(o) \/ Write(o)

Spec == Init /\ [][Next]_vars

-----------------------------------------------------------------------------
\* Every variable has its type.
TypeOK ==
    /\ at \in [Sources -> SUBSET Objects] /\ bytes \in [Objects -> Contents]
    /\ mapped \subseteq Objects
    /\ declared \in [Sources -> Contents] /\ readable \subseteq Contents
    /\ call \in Calls /\ current \subseteq Sources
    /\ pc \in {"idle", "next", "hash", "parser", "observe", "hash again", "reopen"}
    /\ object \in [Sources -> SUBSET Objects]
    /\ seen \in [Sources -> SUBSET Contents] /\ facts \in [Sources -> SUBSET Contents]
    /\ \A c \in custody \cup accepted :
         c.state \in [Sources -> States] /\ c.status \in {"READY", "BLOCKED"}
    /\ events \in 0..MaxEvents

CustodyBytesAreTrue ==
    \A c \in custody :
        /\ \A s \in Sources : c.observed[s] = {declared[s]}
        /\ call = "media" =>
             \A s \in Sources : facts[s] # {declared[s]} => wavered[s] >= 2

\* The bytes a custody hands on are the declared ones; its media facts were
\* read from them too, unless a writer changed the file and changed it back
\* between two reads of one open handle. The validator that closes an
\* inspection refuses none whose reads agree.
CustodyIsTrue ==
    /\ AllRecorded /\ IdentityIsStable => CustodyHolds(Complete(call))
    /\ CustodyBytesAreTrue

\* READY means that no two sources of the bundle are one file, in a custody
\* that is returned and in one that a caller kept, or altered, and had accepted.
\* Of what a caller holds, the state of an item is not read from the files again:
\* only its validation ties it to the groups that are.
ReadyIsDistinct ==
    \A c \in custody \cup accepted :
        c.status = "READY" =>
            \A s, t \in Sources : s # t => object[s] # object[t]

\* What a custody hands on is what was declared, and READY it is of distinct files.
SourcesAreTraced == TypeOK /\ CustodyIsTrue /\ ReadyIsDistinct
=============================================================================
