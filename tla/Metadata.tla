------------------------------- MODULE Metadata -------------------------------
(***************************************************************************)
(* The metadata of an event on its way from POST /events to GET /events:   *)
(* three algorithms that each count levels and keys in their own way, and  *)
(* a compression that nobody undoes.                                       *)
(*                                                                         *)
(* A document is a tree: a leaf is a string or a number, and a container   *)
(* holds the values of its keys or items in their order.  Abstractions:    *)
(* no text, only strings with HTML markup and leaves without; no sizes, so *)
(* whether a document is too large or worth compressing is open; no keys,  *)
(* and no document that looks compressed by itself.                        *)
(***************************************************************************)
EXTENDS Naturals, Sequences, FiniteSetsExt

CONSTANTS
  MaxDepth, (* METADATA_MAX_DEPTH                                          *)
  MaxKeys,  (* METADATA_MAX_KEYS                                           *)
  Levels,   (* bound: levels of containers a client sends                  *)
  Width     (* bound: entries of one container, the last one any document, *)
            (* those before it all the same: leaves or small arrays        *)

ASSUME MetadataAssumption == {MaxDepth, MaxKeys, Levels, Width} \subseteq Nat \ {0}

VARIABLES
  document, (* what the client sent                                        *)
  stage,    (* "sent", "refused", "sanitized", "stored" or "read"          *)
  copy      (* what the system made of it                                  *)

metadataVars == <<document, stage, copy>>

Leaf == [kind |-> "leaf", values |-> << >>]
Markup == [kind |-> "markup", values |-> << >>]
TooDeep == [kind |-> "too deeply nested", values |-> << >>]
TooMany == [kind |-> "too many keys", values |-> << >>]

IsContainer(d) == d.kind \in {"object", "array"}

Sibling == {Leaf, [kind |-> "array", values |-> <<Markup>>]}

Entries(last) ==
  {<< >>} \cup {Append([i \in 1 .. n |-> s], d) : n \in 0 .. Width - 1, s \in Sibling, d \in last}

RECURSIVE Documents(_)
Documents(n) ==
  IF n = 0 THEN {Leaf, Markup}
  ELSE {Leaf, Markup} \cup [kind : {"object", "array"}, values : Entries(Documents(n - 1))]

Inner(d) == {i \in DOMAIN d.values : IsContainer(d.values[i])}

--------------------------------------------------------------------------------
(* The validator of CreateEventDto                                         *)

(* An array ends the descent, whatever it holds; the first level is 0.     *)
RECURSIVE CalculateDepth(_, _)
CalculateDepth(d, currentDepth) ==
  IF d.kind # "object" THEN currentDepth
  ELSE Max({currentDepth} \cup {CalculateDepth(d.values[i], currentDepth + 1) : i \in Inner(d)})

(* The keys of all objects, also of those in arrays; items do not count.   *)
RECURSIVE CountKeys(_)
CountKeys(d) ==
  (IF d.kind = "object" THEN Len(d.values) ELSE 0)
    + MapThenSumSet(LAMBDA i : CountKeys(d.values[i]), Inner(d))

IsMetadataValid(d) == CalculateDepth(d, 0) <= MaxDepth /\ CountKeys(d) <= MaxKeys

--------------------------------------------------------------------------------
(* The sanitizer                                                           *)


IsTooDeep(depth) == depth >= MaxDepth

(* sanitizeString(): the text without its markup; other leaves stay.       *)
SanitizeLeaf(d) == IF d = Markup THEN Leaf ELSE d

(* A container at the depth limit or met after MaxKeys entries is replaced *)
(* by a string; an object keeps only the entries up to that number.  The   *)
(* count goes down one path: of the siblings before, each counts as one.   *)
RECURSIVE SanitizeObject(_, _, _)
SanitizeObject(d, depth, keyCount) ==
  LET entry(i) == SanitizeObject(d.values[i], depth + 1, keyCount + i - 1)
      room == MaxKeys - keyCount
      kept == IF d.kind = "object" /\ Len(d.values) > room THEN room ELSE Len(d.values)
  IN IF ~ IsContainer(d) THEN SanitizeLeaf(d)
     ELSE IF IsTooDeep(depth) THEN TooDeep
     ELSE IF keyCount >= MaxKeys THEN TooMany
     ELSE [d EXCEPT !.values = [i \in 1 .. kept |-> entry(i)]]

--------------------------------------------------------------------------------
(* Compression                                                             *)

Compressed(d) == [kind |-> "compressed", values |-> <<d>>]

(* What compressMetadata() may return: an object with entries may be large *)
(* enough, gzip may work, and the result may be smaller.                   *)
CompressMetadata(d) ==
  IF d.values = << >> THEN {d} ELSE {d, Compressed(d)}

--------------------------------------------------------------------------------

(* The request's metadata is an object; @IsObject() refuses the rest.      *)
MetadataInit ==
  /\ document \in {d \in Documents(Levels) : d.kind = "object"}
  /\ stage = "sent"
  /\ copy = document

(* The document is too large, too deep or has too many keys: 400.          *)
Refused ==
  /\ stage = "sent"
  /\ stage' = "refused"
  /\ UNCHANGED <<document, copy>>

(* enrich(): the sanitizer's copy.                                         *)
Sanitized ==
  /\ stage = "sent"
  /\ IsMetadataValid(document)
  /\ copy' = SanitizeObject(document, 0, 0)
  /\ stage' = "sanitized"
  /\ UNCHANGED document

(* enrich() awaits compressMetadata(), and its result gets stored.         *)
Stored ==
  /\ stage = "sanitized"
  /\ copy' \in CompressMetadata(copy)
  /\ stage' = "stored"
  /\ UNCHANGED document

(* search() gives clients the column as it is: decompressMetadata() has no *)
(* caller.                                                                 *)
ReadBack ==
  /\ stage = "stored"
  /\ stage' = "read"
  /\ UNCHANGED <<document, copy>>

MetadataNext ==
  \/ Refused
  \/ Sanitized
  \/ Stored
  \/ ReadBack

--------------------------------------------------------------------------------
(* Properties                                                              *)

MetadataTypeOK ==
  /\ stage \in {"sent", "refused", "sanitized", "stored", "read"}
  /\ document.kind = "object"

RECURSIVE Clean(_, _)
Clean(d, levels) ==
  /\ d # Markup
  /\ IsContainer(d) => /\ levels > 0
                       /\ \A i \in DOMAIN d.values : Clean(d.values[i], levels - 1)


================================================================================
