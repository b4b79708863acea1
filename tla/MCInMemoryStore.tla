--------------------------- MODULE MCInMemoryStore ---------------------------
(***************************************************************************)
(* Instances of InMemoryStore for TLC, and what its contents become on     *)
(* disk and back.                                                          *)
(***************************************************************************)
EXTENDS InMemoryStore, PersistedForms

Symmetry == Permutations(Keys)

FewIndices  == {0, -1}

\* What save() writes, restore() makes again: PersistenceManager's two halves,
\* one reading the store by its public methods, the other writing it so, agree
\* on every store that can arise.
SnapshotRestores == SameData(Restored(Dumped(store, now), now), store, now)

\* What rewrite() writes, the replay makes again: the lines AofWriter invents
\* for the contents mean to CommandHandler what they were written for.
RewriteReproduces ==
  SameData(Replayed(EmptyStore, Lines(Dumped(store, now)), now), store, now)

\* Neither form of the contents on disk loses anything of them.
FormsReproduce == SnapshotRestores /\ RewriteReproduces

=============================================================================
