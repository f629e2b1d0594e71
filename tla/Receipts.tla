------------------------------- MODULE Receipts -------------------------------
(***************************************************************************)
(* The receipts of a U0 execution and the sealed result they end in, as    *)
(* runtime.py makes them, and what verification.py accepts.                *)
(*                                                                         *)
(* Digests are taken to be injective: a digest is its subject, wrapped.    *)
(***************************************************************************)
EXTENDS Naturals, Sequences, FiniteSets

Digest(x) == <<x>>
Genesis   == << >>

Body(receipt) ==
  [sequence |-> receipt.sequence, manifest |-> receipt.manifest,
   node |-> receipt.node, place |-> receipt.place, input |-> receipt.input,
   output |-> receipt.output, previous |-> receipt.previous]

LastDigest(receipts) ==
  IF receipts = << >> THEN Genesis ELSE receipts[Len(receipts)].digest

Sealed(body) ==
  [sequence |-> body.sequence, manifest |-> body.manifest,
   node |-> body.node, place |-> body.place, input |-> body.input,
   output |-> body.output, previous |-> body.previous, digest |-> Digest(body)]

(* Mutant: the chain is not carried from one receipt to the next. *)
UnchainedReceipt(receipts, m, n, place, input, output) ==
  Sealed([sequence |-> Len(receipts) + 1, manifest |-> Digest(m), node |-> n,
          place |-> place, input |-> Digest(input), output |-> Digest(output),
          previous |-> Genesis])

(* The receipt of the next node, linked to the receipts before it. *)
NextReceipt(receipts, m, n, place, input, output) ==
  Sealed([sequence |-> Len(receipts) + 1, manifest |-> Digest(m), node |-> n,
          place |-> place, input |-> Digest(input), output |-> Digest(output),
          previous |-> LastDigest(receipts)])

Terminal(manifestDigest, count, last, exportsDigest) ==
  Digest(<<manifestDigest, count, last, exportsDigest>>)

Success(m, receipts, exports) ==
  [status        |-> "succeeded",
   manifest      |-> Digest(m),
   receipts      |-> receipts,
   count         |-> Len(receipts),
   last          |-> LastDigest(receipts),
   exports       |-> exports,
   exportsDigest |-> Digest(exports),
   terminal      |-> Terminal(Digest(m), Len(receipts), LastDigest(receipts),
                              Digest(exports))]

-----------------------------------------------------------------------------
(* verify_result, given the manifest. *)

(* Mutant: a receipt's place in the chain is not compared. *)
ChainAnywhere(r) ==
  \A i \in DOMAIN r.receipts :
    LET receipt == r.receipts[i]
    IN  /\ receipt.digest = Digest(Body(receipt))
        /\ receipt.manifest = r.manifest
        /\ \A k \in 1 .. (i - 1) : r.receipts[k].node # receipt.node

ChainVerifies(r) ==
  \A i \in DOMAIN r.receipts :
    LET receipt == r.receipts[i]
    IN  /\ receipt.sequence = i
        /\ receipt.previous = IF i = 1 THEN Genesis
                              ELSE Digest(Body(r.receipts[i - 1]))
        /\ receipt.digest = Digest(Body(receipt))
        /\ receipt.manifest = r.manifest
        /\ \A k \in 1 .. (i - 1) : r.receipts[k].node # receipt.node

ExportsVerify(r) ==
  /\ r.exportsDigest = Digest(r.exports)
  /\ \A n \in DOMAIN r.exports :
       \E i \in DOMAIN r.receipts : /\ r.receipts[i].node = n
                                    /\ r.receipts[i].output = Digest(r.exports[n])

Verifies(r, m) ==
  /\ r.status = "succeeded"
  /\ r.manifest = Digest(m)
  /\ ChainVerifies(r)
  /\ r.count = Len(r.receipts)
  /\ r.last = LastDigest(r.receipts)
  /\ ExportsVerify(r)
  /\ r.terminal = Terminal(r.manifest, r.count, r.last, r.exportsDigest)
=============================================================================
