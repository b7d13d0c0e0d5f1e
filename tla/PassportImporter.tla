-------------------------- MODULE PassportImporter --------------------------
(***************************************************************************)
(* The importer of passports (asmtp-lib, passport_importer.rs), the same   *)
(* for owned blocks and for slices: the first block makes the passport,    *)
(* the others wait in `pending`, by the hash of their parent, until it is  *)
(* in `added`.  Passport is external (keynesis): a chain that a block can  *)
(* be pushed to when it holds the parent of the block.                     *)
(***************************************************************************)
EXTENDS Tables

CONSTANTS
    Parent,           \* the previous block of each block
    NoParent          \* Previous::None

(* Passport::push                                                          *)
Accepts(chain, b) == Parent[b] \in Range(chain) /\ b \notin Range(chain)

Push(imp, b) ==
    IF imp = Fault \/ ~Accepts(imp.current, b) THEN Fault
    ELSE [imp EXCEPT !.current = Append(@, b), !.added = @ \cup {b}]

NewOwned(head) ==
    IF Parent[head] # NoParent THEN Fault
    ELSE [current |-> <<head>>, pending |-> <<>>, added |-> {}]

Pending(imp, parent) ==
    IF parent \in DOMAIN imp.pending THEN imp.pending[parent] ELSE <<>>

PutBlock(imp, b) ==
    IF imp = Fault \/ Parent[b] = NoParent THEN Fault
    ELSE [imp EXCEPT !.pending =
             Insert(@, Parent[b], Append(Pending(imp, Parent[b]), b))]

(* The children of a block just added, then theirs: `resolved` is the      *)
(* queue of load, at most one turn for each block.                         *)
Take(imp, id) == [imp EXCEPT !.pending = Delete(@, {id})]

Resolve(first, id) ==
    LET turn(s) ==
            LET b == Head(s.resolved)
            IN  [imp |-> FoldLeft(Push, Take(s.imp, b), Pending(s.imp, b)),
                 resolved |-> Tail(s.resolved) \o Pending(s.imp, b)]
        after[n \in 0..Cardinality(DOMAIN Parent)] ==
            IF n = 0 THEN [imp |-> first, resolved |-> <<id>>]
            ELSE IF after[n - 1].imp = Fault \/ after[n - 1].resolved = <<>>
            THEN after[n - 1]
            ELSE turn(after[n - 1])
    IN  after[Cardinality(DOMAIN Parent)].imp

Load(imp, b) ==
    IF imp = Fault \/ Parent[b] = NoParent THEN Fault
    ELSE IF Parent[b] \notin imp.added THEN PutBlock(imp, b)
    ELSE Resolve(Push(imp, b), b)

(* The passport, or no block when that fails.                              *)
Finalize(imp) ==
    IF imp = Fault \/ DOMAIN imp.pending # {} THEN <<>> ELSE imp.current

FromBlocks(blocks) ==
    IF blocks = <<>> THEN <<>>
    ELSE Finalize(FoldLeft(PutBlock, NewOwned(blocks[1]), Tail(blocks)))

(* What else a caller can do with the public methods.                      *)
LoadBlocks(blocks) ==
    IF blocks = <<>> THEN <<>>
    ELSE Finalize(FoldLeft(Load, NewOwned(blocks[1]), Tail(blocks)))

=============================================================================
