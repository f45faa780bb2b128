----------------------------- MODULE NeighborCache -----------------------------
(***************************************************************************)
(* The neighbour list cache of the GRACE backend                           *)
(* (calculators/grace_calc.py, _NeighborListCache).  The model needs every *)
(* pair of atoms, periodic images included, that is closer than a cutoff.  *)
(* The cache searches once with a larger cutoff and then filters the pairs *)
(* it found, until an atom has moved too far.                              *)
(*                                                                         *)
(* The cell has one dimension, lengths are integers, and a pair is given   *)
(* by its two atoms and the vector between them.  The guarantee is about   *)
(* distances, and the code treats the three dimensions alike.              *)
(***************************************************************************)
EXTENDS Integers

CONSTANTS
    Site,        \* the atoms a structure may have
    Element,     \* their species
    Cutoff,      \* the cutoff of each unordered pair of species
    MaxCutoff,   \* the largest of them
    Skin,        \* neighbor_skin
    Length,      \* the cells that are used
    Coordinate,  \* the positions that are used (bound)
    NoCache      \* no list is stored

ASSUME NeighborAssumption ==
    /\ MaxCutoff \in Nat /\ Skin \in Nat \ {0}
    /\ \A a, b \in Element : Cutoff[{a, b}] \in 0..MaxCutoff
    /\ Length \subseteq Nat \ {0} /\ Coordinate \subseteq Int

Structure ==
    [at : UNION {[some -> Coordinate] : some \in SUBSET Site},
     of : [Site -> Element], cell : Length, periodic : BOOLEAN]

VARIABLES
    atoms,      \* the structure that the caller moves and evaluates
    stored,     \* the structure of the last search and the images it found
    given,      \* the pairs given to the model for atoms as they are now
    failed      \* _inference_failed

neighborVars == <<atoms, stored, given, failed>>

NoPairs == [kind |-> "nothing"]

NeighborInit ==
    /\ atoms \in Structure /\ DOMAIN atoms.at = Site /\ atoms.periodic
    /\ stored = NoCache /\ given = NoPairs /\ failed = FALSE

-------------------------------------------------------------------------------
(* The pairs of a structure *)

Size(x) == IF x < 0 THEN -x ELSE x

Vectors == -(MaxCutoff + Skin) .. (MaxCutoff + Skin)

\* From atom i to atom j as the coordinates are written, without images.
Raw(s, i, j) == s.at[j] - s.at[i]

InReach(s, i, j, v, extra) == Size(v) < Cutoff[{s.of[i], s.of[j]}] + extra

\* Is there an image of atom j at vector v from atom i?  An atom is not an image
\* of itself.
ImageAt(s, i, j, v) ==
    /\ IF s.periodic THEN (v - Raw(s, i, j)) % s.cell = 0 ELSE v = Raw(s, i, j)
    /\ i = j => v # 0

\* A fresh search: all images within the cutoff.
Search(s, extra) ==
    {p \in (DOMAIN s.at) \X (DOMAIN s.at) \X Vectors :
        ImageAt(s, p[1], p[2], p[3]) /\ InReach(s, p[1], p[2], p[3], extra)}

\* _search_extended: each image found is kept by its atoms and lattice shift.
Images(s) == {<<p[1], p[2], (p[3] - Raw(s, p[1], p[2])) \div s.cell>> : p \in Search(s, Skin)}

\* _assemble: an atom without a neighbour gets a dummy pair, recreated for the
\* exact cutoff.
Assembled(s, pairs) ==
    [kind |-> "pairs", pairs |-> pairs,
     dummies |-> {i \in DOMAIN s.at : \A p \in pairs : p[1] # i}]

\* find_mic: the shortest of the equivalent displacements.
Nearest(x, length) == ((x + length \div 2) % length) - length \div 2

Displaced(s, old) == [i \in DOMAIN s.at |-> Nearest(s.at[i] - old.at[i], s.cell)]

\* _reuse_displacements: the structure is the stored one, and no atom has moved
\* by more than half the skin, images apart.
Reusable(s, old) ==
    /\ DOMAIN s.at = DOMAIN old.at
    /\ \A i \in DOMAIN s.at : s.of[i] = old.of[i]
    /\ s.periodic = old.periodic /\ s.cell = old.cell
    /\ \A i \in DOMAIN s.at : 2 * Size(Displaced(s, old)[i]) <= Skin

\* A bug that Kept must not have: the lattice translation of an atom whose
\* coordinates were wrapped is not transferred to its pairs.
KeptUnwrapped(s, old, images) ==
    {<<m[1], m[2], Raw(s, m[1], m[2]) + m[3] * s.cell>> :
        m \in {n \in images :
                InReach(s, n[1], n[2], Raw(s, n[1], n[2]) + n[3] * s.cell, 0)}}

\* _filter: the stored images at the current coordinates.  The cells by which
\* the coordinates were wrapped since are transferred to the images.
Kept(s, old, images) ==
    LET moved == Displaced(s, old)
        wrapped == [i \in DOMAIN s.at |-> (s.at[i] - old.at[i] - moved[i]) \div s.cell]
        Vector(m) ==
            Raw(s, m[1], m[2]) + (m[3] - wrapped[m[2]] + wrapped[m[1]]) * s.cell
    IN  {<<m[1], m[2], Vector(m)>> : m \in {n \in images : InReach(s, n[1], n[2], Vector(n), 0)}}

-------------------------------------------------------------------------------
(* The caller: MD, relaxation, a batch, or a user of the ASE interface *)

Change(s) ==
    /\ s \in Structure /\ atoms' = s /\ given' = NoPairs
    /\ UNCHANGED <<stored, failed>>

Move(i) ==
    \E x \in {atoms.at[i] - 1, atoms.at[i] + 1} :
        Change([atoms EXCEPT !.at = [@ EXCEPT ![i] = x]])

Wrap == Change([atoms EXCEPT !.at = [i \in DOMAIN @ |-> @[i] % atoms.cell]])

Stretch(length) == Change([atoms EXCEPT !.cell = length])

Substitute(i, element) == Change([atoms EXCEPT !.of = [@ EXCEPT ![i] = element]])

OpenOrClose == Change([atoms EXCEPT !.periodic = ~@])

TakeOut(i) ==
    Change([atoms EXCEPT !.at = [k \in (DOMAIN @) \ {i} |-> @[k]]])

-------------------------------------------------------------------------------
(* Evaluation: _NeighborListCache.__call__ under the guard of the calculator *)

\* An open structure goes to the extractor of TensorPotential, on a copy, and
\* whatever was stored is dropped.
EvaluateOpen ==
    /\ ~failed /\ ~atoms.periodic
    /\ stored' = NoCache
    /\ given' = Assembled(atoms, Search(atoms, 0))
    /\ UNCHANGED <<atoms, failed>>

EvaluateStored ==
    /\ ~failed /\ atoms.periodic
    /\ stored # NoCache /\ Reusable(atoms, stored.structure)
    /\ given' = Assembled(atoms, Kept(atoms, stored.structure, stored.images))
    /\ UNCHANGED <<atoms, stored, failed>>

EvaluateAnew ==
    /\ ~failed /\ atoms.periodic
    /\ stored # NoCache => ~Reusable(atoms, stored.structure)
    /\ LET images == Images(atoms)
       IN  /\ stored' = [structure |-> atoms, images |-> images]
           /\ given' = Assembled(atoms, Kept(atoms, atoms, images))
    /\ UNCHANGED <<atoms, failed>>

\* An error or a Ctrl-C in a search: the new reference may be stored beside
\* the old images.  The guard invalidates the calculator for good.
EvaluationFails ==
    /\ ~failed
    /\ failed' = TRUE /\ given' = NoPairs
    /\ \/ UNCHANGED stored
       \/ /\ stored # NoCache /\ atoms.periodic
          /\ stored' = [stored EXCEPT !.structure = atoms]
    /\ UNCHANGED atoms

NeighborNext ==
    \/ \E i \in DOMAIN atoms.at : Move(i) \/ TakeOut(i)
    \/ \E i \in Site, element \in Element : Substitute(i, element)
    \/ \E length \in Length : Stretch(length)
    \/ Wrap
    \/ OpenOrClose
    \/ EvaluateOpen \/ EvaluateStored \/ EvaluateAnew \/ EvaluationFails

NeighborSpec == NeighborInit /\ [][NeighborNext]_neighborVars

-------------------------------------------------------------------------------
(* Properties *)

NeighborTypeOK ==
    /\ atoms \in Structure
    /\ failed \in BOOLEAN
    /\ stored # NoCache =>
        /\ stored.structure \in Structure /\ stored.structure.periodic
        /\ stored.images \subseteq Site \X Site \X Int
    /\ given # NoPairs => given.pairs \subseteq Site \X Site \X Vectors

\* Whatever the caller did between two evaluations, the pairs given to the
\* model are those of a fresh search at the exact cutoff (the docstring of
\* _NeighborListCache), dummies included.
PairsAreFresh ==
    given # NoPairs => given = Assembled(atoms, Search(atoms, 0))
===============================================================================
