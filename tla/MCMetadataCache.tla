--------------------------- MODULE MCMetadataCache ---------------------------
(***************************************************************************)
(* Small instances of the metadata cache: two threads, three paths, and    *)
(* the operations that meet on them.                                       *)
(***************************************************************************)
EXTENDS MetadataCache, TLC

MCFiles == ("p" :> "u")

Do(op, path, to, uuid, new) ==
    [op |-> op, path |-> path, to |-> to, uuid |-> uuid, new |-> new,
     location |-> {}, children |-> <<>>]

On(op, path) == Do(op, path, None, None, None)

With(op, uuid) == Do(op, None, None, uuid, None)

Renames(path, to) == Do("rename", path, to, None, "v")

Remaps(uuid, new, to) == Do("remapFile", None, to, uuid, new)

\* A directory whose only child is the second file.
RenamesTree == [Renames("p", "q") EXCEPT !.children = <<Remaps("w", "v", "r")>>]

Creates == [Do("map", None, "q", "v", None) EXCEPT !.location = {"location"}]

Lists == Do("map", None, "p", "u", None)

\* Operations that take the accessor of a path and then that of the metadata.
Lookups == {On("getAttr", "p"), On("chmod", "p"), On("truncate", "p"), On("removeFile", "p"),
            With("write", "u"), With("getLocation", "u"), Lists}

Others == {Renames("p", "q"), RenamesTree, With("remove", "u"), With("fileAttr", "u"),
           With("removedUpstream", "u"), With("renamedUpstream", "u"), Creates,
           Do("provider", "p", "q", None, None), Do("provider", "p", None, None, None)}

MCWorkloads ==
    {(1 :> s @@ 2 :> r) :
        s \in {<<a, b>> : a \in Lookups, b \in Lookups \cup Others},
        r \in {<<c>> : c \in Lookups \cup Others}}
    \cup
    {(1 :> <<Lists, Do("provider", "p", "q", None, None), On("getAttr", "q")>>
      @@ 2 :> <<Renames("q", "p")>>),
     (1 :> <<On("utime", "p")>> @@ 2 :> <<Renames("p", "q")>>),
     (1 :> <<On("getAttr", "p"), With("renamedUpstream", "u"), Renames("p", "q"),
             Remaps("u", "v", "q")>>
      @@ 2 :> <<On("getAttr", "q")>>)}

Unfinished == {t \in Thread : thread[t].ops # <<>>}

Deadlocked ==
    /\ status = "running"
    /\ Unfinished # {}
    /\ \A t \in Unfinished : ~ENABLED (Run(t) \/ Dereference(t))

\* Operations that lock at most a path and then its metadata never wait for each
\* other in a circle: a rename, a remap or a removal is part of every deadlock.
LookupsNeverDeadlock ==
    Deadlocked => \E t \in Unfinished : Runs(t, {"rename", "remapFile", "remove"})

\* "By convention, to avoid deadlocks, always lock on path before metadata"
NoDeadlock == ~Deadlocked
==============================================================================
