------------------------------- MODULE Listing -------------------------------
(***************************************************************************)
(* Directories listed with several calls of getdents, while names come and *)
(* go: what the entries returned have to do with the entries there were.   *)
(* The variable listings records, for each descriptor of a directory, what *)
(* has happened since it was opened; no call depends on it.                *)
(***************************************************************************)
EXTENDS Vfs

\* The slots of a table are indexed by usize.
ASSUME ListingAssumption == PathMapCap < UsizeMod

VARIABLE listings

listingVars == <<vars, listings>>

\* The entries of each inode, taken for a directory, each with the slot that
\* holds it: a name that moves to another slot has been removed and added.
EntriesOf(slots) == {<<i, path_map[i].key>> : i \in slots}
Entries == [ino \in 0..(Len(inodes) - 1) |-> EntriesOf(EntrySlots(ino))]

NewListing(ino) ==
  [ino |-> ino, stayed |-> Entries[ino], returned |-> {}, given |-> 0,
   added |-> FALSE, removed |-> FALSE]

\* What a change of names means for a listing under way.
Changed(l) ==
  [l EXCEPT !.stayed = @ \cap Entries'[l.ino],
            !.added = @ \/ ~(Entries'[l.ino] \subseteq Entries[l.ino]),
            !.removed = @ \/ ~(Entries[l.ino] \subseteq Entries'[l.ino])]

\* The entries a call of getdents returns, and what they add to the listing.
Batch(fd, room) == EntriesOf(Listed(fd, room))
Returned(l, entries) ==
  [l EXCEPT !.returned = @ \cup entries, !.given = @ + Cardinality(entries)]

ListingInit == Init /\ listings = [fd \in {} |-> fd]

\* A directory is opened, and its listing begins.
BeginListing(path) ==
  /\ Known(path) /\ IsDirectory(InodeOf(path))
  /\ Open(path, {}, {})
  /\ listings' = IF last'.val = -1 THEN listings
                 ELSE [fd \in DOMAIN listings \cup {last'.val} |->
                         IF fd = last'.val THEN NewListing(InodeOf(path)) ELSE listings[fd]]

EndListing(fd) == Close(fd) /\ listings' = Restrict(listings, DOMAIN listings \ {fd})

\* The next entries of a listing.
Continue(fd, room) ==
  /\ Getdents(fd, room)
  /\ listings' = IF fd \in DOMAIN listings /\ last'.val > 0
                 THEN [listings EXCEPT ![fd] = Returned(@, Batch(fd, room))] ELSE listings

\* Names come and go, but for that of the root.
Disturb ==
  /\ \/ \E old, new \in PathArg \ {Root} : Rename(old, new) \/ Link(old, new)
     \/ \E path \in PathArg \ {Root}, mode \in ModeArg :
          Unlink(path) \/ Rmdir(path) \/ Mkdir(path, mode)
  /\ listings' = [fd \in DOMAIN listings |-> Changed(listings[fd])]

ListingStep ==
  \/ \E path \in PathArg : BeginListing(path)
  \/ \E fd \in FdArg : EndListing(fd)
  \/ \E fd \in FdArg, room \in CountArg : Continue(fd, room)
  \/ Disturb

ListingSpec == ListingInit /\ [][ListingStep]_listingVars

-----------------------------------------------------------------------------
\* A listing is over when a call with room for an entry returns none.  If no
\* entry has been removed since it began, whatever was added, it has returned
\* every entry that was there from its beginning and fits a record.
NoneMissedUnlessRemoved ==
  [][last'.call = "getdents" =>
     \A fd \in DOMAIN listings, room \in CountArg \ {0} :
       Continue(fd, room) /\ last'.val = 0 /\ ~listings[fd].removed =>
         \A e \in listings[fd].stayed \ listings[fd].returned :
           FileName(e[2]) \in LongName]_listingVars

\* No entry is returned twice, whatever was removed, unless an entry was added
\* since the listing began, or the directory has, in a slot before that entry,
\* a name too long for a record, which the position does not count.
NoneRepeatedUnlessAdded ==
  [][last'.call = "getdents" =>
     \A fd \in DOMAIN listings, room \in CountArg :
       Continue(fd, room) /\ last'.val > 0 /\ ~listings[fd].added =>
         \A e \in Batch(fd, room) \cap listings[fd].returned :
           \E d \in Entries[listings[fd].ino] :
             d[1] < e[1] /\ FileName(d[2]) \in LongName]_listingVars

\* A program that calls getdents until nothing is returned comes to an end,
\* even if names are added and removed between every two calls: a listing never
\* returns more entries than the path table has slots.
ListingIsBounded == \A fd \in DOMAIN listings : listings[fd].given <= PathMapCap
=============================================================================
