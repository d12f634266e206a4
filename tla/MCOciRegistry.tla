---------------- MODULE MCOciRegistry ----------------
(* An instance of OciRegistry for TLC: an image with one layer, and an     *)
(* image index that names it as a child and as its subject.                *)
EXTENDS OciRegistry, TLC

CONSTANTS c1, c2, p1, p2, b1, img, idx, t1

LayersOf == (img :> {b1}) @@ (idx :> {})
PlatformsOf == (img :> {}) @@ (idx :> {img})
SubjectOf == (img :> None) @@ (idx :> img)
Symmetries == Permutations(Clients) \cup Permutations(Places)
================================
