----------------------------- MODULE CacheProof ----------------------------
(***************************************************************************)
(* The caches under a scan: proofs for every table, page size, budget and  *)
(* sequence of calls.                                                      *)
(***************************************************************************)
EXTENDS MetadataCache, BlockCache, LeastElement, SequenceTheorems

(* A cache whose entries have sizes and whose books agree.                 *)
Sound(c) ==
    /\ c.lru \in Seq(DOMAIN c.pages)
    /\ \A k \in DOMAIN c.pages : c.pages[k].bytes \in Nat
    /\ Consistent(c)

(* The entries of one cache are those of another.                          *)
Within(d, c) ==
    \A k \in DOMAIN d.pages : k \in DOMAIN c.pages /\ d.pages[k] = c.pages[k]

-----------------------------------------------------------------------------
(* Lists.                                                                  *)

LEMMA FunctionIsSeq ==
    ASSUME NEW n \in Nat, NEW S, NEW s \in [1 .. n -> S]
    PROVE  s \in Seq(S) /\ Len(s) = n
  OBVIOUS

(* Where the elements of a list of length n were before the one at a place *)
(* was moved to the front: a permutation.                                  *)
Places(n, at) ==
    [i \in 1 .. n |-> IF i = 1 THEN at ELSE IF i <= at THEN i - 1 ELSE i]

LEMMA FrontPermutes ==
    ASSUME NEW n \in Nat, NEW at \in 1 .. n
    PROVE  /\ \A i \in 1 .. n : Places(n, at)[i] \in 1 .. n
           /\ \A i, j \in 1 .. n : Places(n, at)[i] = Places(n, at)[j] => i = j
           /\ \A j \in 1 .. n : \E i \in 1 .. n : Places(n, at)[i] = j
  <1> PICK was : was = Places(n, at)
    OBVIOUS
  <1>0. was = [i \in 1 .. n |-> IF i = 1 THEN at
                                ELSE IF i <= at THEN i - 1 ELSE i]
    BY DEF Places
  <1>1. \A i \in 1 .. n : was[i] \in 1 .. n
    BY <1>0
  <1>2. \A i, j \in 1 .. n : was[i] = was[j] => i = j
    BY <1>0
  <1>3. ASSUME NEW j \in 1 .. n PROVE \E i \in 1 .. n : was[i] = j
    <2>1. CASE j = at
      BY <1>0, <2>1
    <2>2. CASE j < at
      <3>1. j + 1 \in 1 .. n /\ was[j + 1] = j
        BY <1>0, <2>2
      <3>2. QED BY <3>1
    <2>3. CASE j > at
      BY <1>0, <2>3
    <2>4. QED BY <2>1, <2>2, <2>3
  <1>4. QED BY <1>1, <1>2, <1>3

-----------------------------------------------------------------------------
(* The sum of the entries.                                                 *)

LEMMA TotalsRecursion ==
    ASSUME NEW c, Len(c.lru) \in Nat
    PROVE  Totals(c) =
             [i \in 0 .. Len(c.lru) |->
                IF i = 0 THEN 0
                ELSE Totals(c)[i - 1] + c.pages[c.lru[i]].bytes]
  <1> DEFINE Adds(n, g) ==
               g = [i \in 0 .. n |-> IF i = 0 THEN 0
                                     ELSE g[i - 1] + c.pages[c.lru[i]].bytes]
             Bad == {n \in Nat : ~ \E g : Adds(n, g)}
  <1>1. Bad = {}
    <2>1. SUFFICES ASSUME Bad # {} PROVE FALSE
      OBVIOUS
    <2>2. PICK n \in Bad : \A m \in Bad : n <= m
      <3>1. Bad \subseteq Nat
        OBVIOUS
      <3>2. QED BY <2>1, <3>1, LeastNatural
    <2>3. n # 0
      <3>1. PICK g : g = [i \in 0 .. 0 |-> 0]
        OBVIOUS
      <3>2. Adds(0, g)
        BY <3>1
      <3>3. QED BY <3>2
    <2>4. n - 1 \in Nat /\ n - 1 \notin Bad
      <3>1. n \in Nat
        OBVIOUS
      <3>2. n - 1 \in Nat /\ ~(n <= n - 1)
        BY <2>3, <3>1
      <3>3. QED BY <2>2, <3>2
    <2>5. PICK g : Adds(n - 1, g)
      BY <2>4
    <2>6. PICK h : h = [i \in 0 .. n |->
                          IF i = n THEN g[n - 1] + c.pages[c.lru[n]].bytes
                          ELSE g[i]]
      OBVIOUS
    <2>7. n \in Nat /\ n > 0
      BY <2>3
    <2>8. \A i \in 0 .. n - 1 : h[i] = g[i]
      BY <2>6, <2>7
    <2>9. ASSUME NEW i \in 0 .. n
          PROVE  h[i] = IF i = 0 THEN 0
                        ELSE h[i - 1] + c.pages[c.lru[i]].bytes
      <3>1. CASE i = n
        BY <2>6, <2>7, <2>8, <3>1
      <3>2. CASE i # n
        <4>1. i \in 0 .. n - 1 /\ (i # 0 => i - 1 \in 0 .. n - 1)
          BY <2>7, <3>2
        <4>2. h[i] = g[i] /\ (i # 0 => h[i - 1] = g[i - 1])
          BY <2>8, <4>1
        <4>3. g[i] = IF i = 0 THEN 0 ELSE g[i - 1] + c.pages[c.lru[i]].bytes
          BY <2>5, <4>1
        <4>4. QED BY <4>2, <4>3
      <3>3. QED BY <3>1, <3>2
    <2>10. Adds(n, h)
      BY <2>6, <2>9
    <2>11. QED BY <2>10
  <1>2. PICK g : Adds(Len(c.lru), g)
    BY <1>1
  <1>3. QED BY <1>2 DEF Totals

(* t adds the sizes up.                                                    *)
SumsUp(c, t) ==
    /\ t[0] = 0
    /\ \A i \in 1 .. Len(c.lru) : t[i] = t[i - 1] + c.pages[c.lru[i]].bytes

(* Whatever adds the sizes up in the order of the list gets this sum.      *)
LEMMA TotalsUnique ==
    ASSUME NEW c, Len(c.lru) \in Nat, NEW t, SumsUp(c, t)
    PROVE  \A i \in 0 .. Len(c.lru) : Totals(c)[i] = t[i]
  <1>1. PICK bad : bad = {i \in 0 .. Len(c.lru) : Totals(c)[i] # t[i]}
    OBVIOUS
  <1>2. SUFFICES ASSUME bad # {} PROVE FALSE
    BY <1>1
  <1>3. PICK n \in bad : \A m \in bad : n <= m
    <2>1. bad \subseteq Nat
      BY <1>1
    <2>2. QED BY <1>2, <2>1, LeastNatural
  <1>4. n \in 0 .. Len(c.lru) /\ Totals(c)[n] # t[n]
    BY <1>1
  <1>5. CASE n = 0
    BY <1>4, <1>5, TotalsRecursion DEF SumsUp
  <1>6. CASE n # 0
    <2>1. n \in 1 .. Len(c.lru) /\ n - 1 \in 0 .. Len(c.lru) /\ ~(n <= n - 1)
      BY <1>4, <1>6
    <2>2. Totals(c)[n - 1] = t[n - 1]
      BY <1>1, <1>3, <2>1
    <2>3. Totals(c)[n] = Totals(c)[n - 1] + c.pages[c.lru[n]].bytes
      BY <1>6, <2>1, TotalsRecursion
    <2>4. t[n] = t[n - 1] + c.pages[c.lru[n]].bytes
      BY <2>1 DEF SumsUp
    <2>5. QED BY <1>4, <2>1, <2>2, <2>3, <2>4
  <1>7. QED BY <1>5, <1>6

(* What the sums are.                                                      *)
LEMMA TotalsAre ==
    ASSUME NEW c, Sound(c)
    PROVE  /\ Len(c.lru) \in Nat
           /\ Totals(c)[0] = 0
           /\ \A i \in 1 .. Len(c.lru) :
                /\ c.lru[i] \in DOMAIN c.pages
                /\ c.pages[c.lru[i]].bytes \in Nat
                /\ Totals(c)[i] = Totals(c)[i - 1] + c.pages[c.lru[i]].bytes
           /\ \A i \in 0 .. Len(c.lru) : Totals(c)[i] \in Int
           /\ c.bytes = Totals(c)[Len(c.lru)] /\ c.bytes \in Int
  <1>1. Len(c.lru) \in Nat
    BY DEF Sound
  <1>2. Totals(c)[0] = 0
    BY <1>1, TotalsRecursion
  <1>3. ASSUME NEW i \in 1 .. Len(c.lru)
        PROVE  /\ c.lru[i] \in DOMAIN c.pages
               /\ c.pages[c.lru[i]].bytes \in Nat
               /\ Totals(c)[i] = Totals(c)[i - 1] + c.pages[c.lru[i]].bytes
    <2>1. c.lru[i] \in DOMAIN c.pages /\ c.pages[c.lru[i]].bytes \in Nat
      BY DEF Sound
    <2>2. i \in 0 .. Len(c.lru) /\ i # 0
      BY <1>1
    <2>3. Totals(c)[i] = Totals(c)[i - 1] + c.pages[c.lru[i]].bytes
      BY <1>1, <2>2, TotalsRecursion
    <2>4. QED BY <2>1, <2>3
  <1>4. \A i \in 0 .. Len(c.lru) : Totals(c)[i] \in Int
    <2>1. PICK bad : bad = {i \in 0 .. Len(c.lru) : Totals(c)[i] \notin Int}
      OBVIOUS
    <2>2. SUFFICES ASSUME bad # {} PROVE FALSE
      BY <2>1
    <2>3. PICK n \in bad : \A m \in bad : n <= m
      <3>1. bad \subseteq Nat
        BY <2>1
      <3>2. QED BY <2>2, <3>1, LeastNatural
    <2>4. n \in 1 .. Len(c.lru) /\ n - 1 \in 0 .. Len(c.lru) /\ ~(n <= n - 1)
      BY <1>1, <1>2, <2>1
    <2>5. Totals(c)[n - 1] \in Int
      BY <2>1, <2>3, <2>4
    <2>6. Totals(c)[n] \in Int
      BY <1>3, <2>4, <2>5
    <2>7. QED BY <2>1, <2>6
  <1>5. c.bytes = Totals(c)[Len(c.lru)]
    BY DEF Sound, Consistent
  <1>6. QED BY <1>1, <1>2, <1>3, <1>4, <1>5

(* A cache is sound if some function adds its sizes up to its bytes.       *)
LEMMA SoundBy ==
    ASSUME NEW c,
           c.lru \in Seq(DOMAIN c.pages),
           \A k \in DOMAIN c.pages : c.pages[k].bytes \in Nat,
           \A k \in DOMAIN c.pages : \E i \in 1 .. Len(c.lru) : c.lru[i] = k,
           \A i, j \in 1 .. Len(c.lru) : c.lru[i] = c.lru[j] => i = j,
           NEW t, SumsUp(c, t), c.bytes = t[Len(c.lru)]
    PROVE  Sound(c)
  <1>1. Len(c.lru) \in Nat /\ DOMAIN c.lru = 1 .. Len(c.lru)
    OBVIOUS
  <1>2. DOMAIN c.pages = {c.lru[i] : i \in DOMAIN c.lru}
    <2>1. \A k \in {c.lru[i] : i \in DOMAIN c.lru} : k \in DOMAIN c.pages
      BY <1>1
    <2>2. \A k \in DOMAIN c.pages : k \in {c.lru[i] : i \in DOMAIN c.lru}
      BY <1>1
    <2>3. QED BY <2>1, <2>2
  <1>3. Totals(c)[Len(c.lru)] = t[Len(c.lru)]
    <2>1. \A i \in 0 .. Len(c.lru) : Totals(c)[i] = t[i]
      BY <1>1, TotalsUnique
    <2>2. QED BY <1>1, <2>1
  <1>4. QED BY <1>1, <1>2, <1>3 DEF Sound, Consistent

-----------------------------------------------------------------------------
(* A hit.                                                                  *)

(* The key goes to the front, and the keys before it back by one place.    *)
LEMMA TouchSound ==
    ASSUME NEW c, Sound(c), NEW key \in DOMAIN c.pages
    PROVE  /\ Sound(Touch(c, key))
           /\ Touch(c, key).pages = c.pages /\ Touch(c, key).bytes = c.bytes
           /\ \E at \in 1 .. Len(c.lru) :
                /\ c.lru[at] = key
                /\ Touch(c, key).lru =
                     [i \in 1 .. Len(c.lru) |-> IF i = 1 THEN key
                                                ELSE IF i <= at THEN c.lru[i - 1]
                                                ELSE c.lru[i]]
  <1>1. PICK n : n = Len(c.lru)
    OBVIOUS
  <1>2. /\ n \in Nat /\ DOMAIN c.lru = 1 .. n
        /\ \A i \in 1 .. n : c.lru[i] \in DOMAIN c.pages
        /\ \A i, j \in 1 .. n : c.lru[i] = c.lru[j] => i = j
        /\ \A k \in DOMAIN c.pages : \E i \in 1 .. n : c.lru[i] = k
        /\ \A k \in DOMAIN c.pages : c.pages[k].bytes \in Nat
    BY <1>1 DEF Sound, Consistent
  <1>3. PICK at : at = CHOOSE i \in DOMAIN c.lru : c.lru[i] = key
    OBVIOUS
  <1>4. at \in 1 .. n /\ c.lru[at] = key
    BY <1>2, <1>3
  <1>5. PICK d : d = Touch(c, key)
    OBVIOUS
  <1>6. /\ d.lru = [i \in 1 .. n |-> IF i = 1 THEN key
                                      ELSE IF i <= at THEN c.lru[i - 1]
                                      ELSE c.lru[i]]
        /\ d.pages = c.pages /\ d.bytes = c.bytes
    BY <1>1, <1>3, <1>5 DEF Touch
  <1>7. PICK was : was = Places(n, at)
    OBVIOUS
  <1>8. /\ \A i \in 1 .. n : was[i] \in 1 .. n
        /\ \A i, j \in 1 .. n : was[i] = was[j] => i = j
        /\ \A j \in 1 .. n : \E i \in 1 .. n : was[i] = j
    <2>1. n \in Nat /\ at \in 1 .. n
      BY <1>2, <1>4
    <2>2. /\ \A i \in 1 .. n : Places(n, at)[i] \in 1 .. n
          /\ \A i, j \in 1 .. n : Places(n, at)[i] = Places(n, at)[j] => i = j
          /\ \A j \in 1 .. n : \E i \in 1 .. n : Places(n, at)[i] = j
      BY ONLY <2>1, FrontPermutes, Zenon
    <2>3. QED BY <1>7, <2>2
  <1>9. /\ \A i \in 1 .. n : d.lru[i] = c.lru[was[i]]
        /\ was = [i \in 1 .. n |-> IF i = 1 THEN at
                                   ELSE IF i <= at THEN i - 1 ELSE i]
    BY <1>2, <1>4, <1>6, <1>7 DEF Places
  <1>10. d.lru \in Seq(DOMAIN d.pages) /\ Len(d.lru) = n
    <2>1. \A i \in 1 .. n : d.lru[i] \in DOMAIN c.pages
      <3> TAKE i \in 1 .. n
      <3>1. was[i] \in 1 .. n /\ d.lru[i] = c.lru[was[i]]
        BY <1>8, <1>9
      <3>2. QED BY <1>2, <3>1
    <2>2. d.lru \in [1 .. n -> DOMAIN c.pages]
      BY <1>6, <2>1
    <2>3. QED BY <1>2, <1>6, <2>2, FunctionIsSeq
  <1>11. \A k \in DOMAIN d.pages : \E i \in 1 .. n : d.lru[i] = k
    <2> TAKE k \in DOMAIN d.pages
    <2>1. PICK j \in 1 .. n : c.lru[j] = k
      BY <1>2, <1>6
    <2>2. PICK i \in 1 .. n : was[i] = j
      BY <1>8
    <2>3. QED BY <1>9, <2>1, <2>2
  <1>12. ASSUME NEW i \in 1 .. n, NEW j \in 1 .. n, d.lru[i] = d.lru[j]
         PROVE  i = j
    <2>1. c.lru[was[i]] = c.lru[was[j]] /\ was[i] \in 1 .. n /\ was[j] \in 1 .. n
      BY <1>8, <1>9, <1>12
    <2>2. was[i] = was[j]
      BY <1>2, <2>1
    <2>3. QED BY <1>8, <2>2
  <1>13. PICK total : total = Totals(c)
    OBVIOUS
  <1>14. /\ total[0] = 0 /\ c.bytes = total[n]
         /\ \A i \in 1 .. n : total[i] = total[i - 1] + c.pages[c.lru[i]].bytes
         /\ \A i \in 0 .. n : total[i] \in Int
    BY <1>1, <1>13, TotalsAre
  <1>15. PICK size : size = [i \in 1 .. n |-> c.pages[c.lru[i]].bytes]
    OBVIOUS
  <1>16. /\ \A i \in 1 .. n : size[i] \in Int
         /\ \A i \in 1 .. n : total[i] = total[i - 1] + size[i]
         /\ \A i \in 1 .. n : d.pages[d.lru[i]].bytes = size[was[i]]
    <2>1. ASSUME NEW i \in 1 .. n PROVE size[i] \in Int
      <3>1. c.lru[i] \in DOMAIN c.pages
        BY <1>2
      <3>2. c.pages[c.lru[i]].bytes \in Nat
        BY <1>2, <3>1
      <3>3. size[i] = c.pages[c.lru[i]].bytes
        BY <1>15
      <3>4. QED BY <3>2, <3>3
    <2>2. ASSUME NEW i \in 1 .. n PROVE total[i] = total[i - 1] + size[i]
      BY <1>14, <1>15
    <2>3. ASSUME NEW i \in 1 .. n PROVE d.pages[d.lru[i]].bytes = size[was[i]]
      BY <1>6, <1>8, <1>9, <1>15
    <2>4. QED BY <2>1, <2>2, <2>3
  <1>17. PICK t : t = [i \in 0 .. n |-> IF i = 0 THEN 0
                                        ELSE IF i <= at
                                          THEN total[i - 1] + size[at]
                                          ELSE total[i]]
    OBVIOUS
  <1>18. ASSUME NEW i \in 1 .. n PROVE t[i] = t[i - 1] + size[was[i]]
    <2>1. CASE i = 1
      <3>1. was[1] = at /\ t[1] = total[0] + size[at] /\ t[0] = 0
        BY <1>2, <1>4, <1>9, <1>17
      <3>2. QED BY <1>14, <2>1, <3>1
    <2>2. CASE i # 1 /\ i <= at
      <3>1. /\ i - 1 \in 1 .. n /\ i - 2 \in 0 .. n /\ was[i] = i - 1
            /\ t[i] = total[i - 1] + size[at]
            /\ t[i - 1] = total[i - 2] + size[at]
        BY <1>2, <1>4, <1>9, <1>17, <2>2
      <3>2. total[i - 1] = total[i - 2] + size[i - 1]
        BY <1>16, <3>1
      <3>3. total[i - 2] \in Int /\ size[at] \in Int /\ size[i - 1] \in Int
        BY <1>4, <1>14, <1>16, <3>1
      <3>4. QED BY <3>1, <3>2, <3>3
    <2>3. CASE i = at + 1
      <3>1. /\ was[i] = i /\ t[i] = total[i]
            /\ t[i - 1] = total[at - 1] + size[at]
        <4>1. at \in Nat /\ at >= 1 /\ at + 1 \in 1 .. n /\ at \in 0 .. n
              /\ at # 0
          BY <1>2, <1>4, <2>3
        <4>2. was[at + 1] = at + 1 /\ t[at + 1] = total[at + 1]
          BY <1>9, <1>17, <4>1
        <4>3. t[at] = total[at - 1] + size[at]
          BY <1>17, <4>1
        <4>4. QED BY <2>3, <4>1, <4>2, <4>3
      <3>2. total[i] = total[at] + size[i] /\ total[at] = total[at - 1] + size[at]
        BY <1>4, <1>16, <2>3
      <3>3. QED BY <3>1, <3>2
    <2>4. CASE i > at + 1
      <3>1. was[i] = i /\ t[i] = total[i] /\ t[i - 1] = total[i - 1]
        <4>1. /\ i \in Nat /\ i # 0 /\ i # 1 /\ ~(i <= at) /\ i \in 0 .. n
              /\ i - 1 \in 0 .. n /\ i - 1 # 0 /\ ~(i - 1 <= at)
          BY <1>2, <1>4, <2>4
        <4>2. was[i] = i
          BY <1>9, <4>1
        <4>3. QED BY <1>17, <4>1, <4>2
      <3>2. QED BY <1>16, <3>1
    <2>5. QED BY <1>4, <2>1, <2>2, <2>3, <2>4
  <1>19. t[0] = 0 /\ d.bytes = t[n]
    <2>1. t[0] = 0
      BY <1>2, <1>17
    <2>2. CASE at = n
      <3>1. t[n] = total[n - 1] + size[n] /\ total[n] = total[n - 1] + size[n]
        BY <1>2, <1>4, <1>16, <1>17, <2>2
      <3>2. QED BY <1>6, <1>14, <2>1, <3>1
    <2>3. CASE at < n
      BY <1>2, <1>4, <1>6, <1>14, <1>17, <2>1, <2>3
    <2>4. QED BY <1>2, <1>4, <2>2, <2>3
  <1>20. SumsUp(d, t)
    BY <1>10, <1>16, <1>18, <1>19 DEF SumsUp
  <1>21. Sound(d)
    BY <1>2, <1>6, <1>10, <1>11, <1>12, <1>19, <1>20, SoundBy
  <1>22. QED BY <1>1, <1>4, <1>5, <1>6, <1>21

-----------------------------------------------------------------------------
(* A miss.                                                                 *)

(* What a sound cache is, place by place.                                  *)
LEMMA SoundIs ==
    ASSUME NEW c, Sound(c), NEW n, n = Len(c.lru)
    PROVE  /\ n \in Nat /\ DOMAIN c.lru = 1 .. n
           /\ c.lru \in Seq(DOMAIN c.pages)
           /\ \A i \in 1 .. n : c.lru[i] \in DOMAIN c.pages
           /\ \A i, j \in 1 .. n : c.lru[i] = c.lru[j] => i = j
           /\ \A k \in DOMAIN c.pages : \E i \in 1 .. n : c.lru[i] = k
           /\ \A k \in DOMAIN c.pages : c.pages[k].bytes \in Nat
  BY DEF Sound, Consistent

LEMMA AddSound ==
    ASSUME NEW c, Sound(c), NEW key, key \notin DOMAIN c.pages, NEW content,
           NEW bytes \in Nat
    PROVE  /\ Sound(Add(c, key, content, bytes))
           /\ Len(Add(c, key, content, bytes).lru) = Len(c.lru) + 1
           /\ Add(c, key, content, bytes).lru[1] = key
           /\ \A i \in 1 .. Len(c.lru) :
                Add(c, key, content, bytes).lru[i + 1] = c.lru[i]
           /\ DOMAIN Add(c, key, content, bytes).pages = DOMAIN c.pages \cup {key}
           /\ Add(c, key, content, bytes).pages[key] =
                [content |-> content, bytes |-> bytes]
           /\ \A k \in DOMAIN c.pages :
                Add(c, key, content, bytes).pages[k] = c.pages[k]
  <1>1. PICK n : n = Len(c.lru)
    OBVIOUS
  <1>2. /\ n \in Nat /\ DOMAIN c.lru = 1 .. n
        /\ c.lru \in Seq(DOMAIN c.pages)
        /\ \A i \in 1 .. n : c.lru[i] \in DOMAIN c.pages
        /\ \A i, j \in 1 .. n : c.lru[i] = c.lru[j] => i = j
        /\ \A k \in DOMAIN c.pages : \E i \in 1 .. n : c.lru[i] = k
        /\ \A k \in DOMAIN c.pages : c.pages[k].bytes \in Nat
    BY <1>1, SoundIs
  <1>3. PICK d : d = Add(c, key, content, bytes)
    OBVIOUS
  <1>4. PICK entry : entry = [content |-> content, bytes |-> bytes]
    OBVIOUS
  <1>5. /\ d.lru = <<key>> \o c.lru
        /\ d.pages = [k \in DOMAIN c.pages \cup {key} |->
                        IF k = key THEN entry ELSE c.pages[k]]
        /\ d.bytes = c.bytes + bytes
    BY <1>3, <1>4 DEF Add
  <1>6. /\ DOMAIN d.pages = DOMAIN c.pages \cup {key}
        /\ d.pages[key] = entry /\ entry.bytes = bytes
        /\ \A k \in DOMAIN c.pages : d.pages[k] = c.pages[k]
    BY <1>4, <1>5
  <1>7. /\ d.lru \in Seq(DOMAIN d.pages) /\ Len(d.lru) = n + 1
        /\ d.lru[1] = key
        /\ \A i \in 2 .. n + 1 : d.lru[i] = c.lru[i - 1]
    <2>1. PICK s, keys : s = c.lru /\ keys = DOMAIN d.pages
      OBVIOUS
    <2>2. s \in Seq(keys) /\ key \in keys /\ Len(s) = n
      BY <1>1, <1>2, <1>6, <2>1, SeqMonotonic
    <2>3. <<key>> \in Seq(keys) /\ Len(<<key>>) = 1 /\ <<key>>[1] = key
      BY <2>2
    <2>4. /\ <<key>> \o s \in Seq(keys)
          /\ Len(<<key>> \o s) = 1 + n
          /\ \A i \in 1 .. 1 + n :
               (<<key>> \o s)[i] = IF i <= 1 THEN <<key>>[i] ELSE s[i - 1]
      BY <2>2, <2>3, ConcatProperties
    <2>5. QED BY <1>2, <1>5, <2>1, <2>3, <2>4
  <1>8. \A k \in DOMAIN d.pages : \E i \in 1 .. n + 1 : d.lru[i] = k
    <2> TAKE k \in DOMAIN d.pages
    <2>1. CASE k = key
      BY <1>2, <1>7, <2>1
    <2>2. CASE k # key
      <3>1. PICK i \in 1 .. n : c.lru[i] = k
        BY <1>2, <1>6, <2>2
      <3>2. i + 1 \in 2 .. n + 1 /\ i + 1 \in 1 .. n + 1 /\ (i + 1) - 1 = i
        BY <1>2
      <3>3. QED BY <1>7, <3>1, <3>2
    <2>3. QED BY <2>1, <2>2
  <1>9. ASSUME NEW i \in 1 .. n + 1, NEW j \in 1 .. n + 1, d.lru[i] = d.lru[j]
        PROVE  i = j
    <2>1. \A m \in 2 .. n + 1 : d.lru[m] # key
      <3> TAKE m \in 2 .. n + 1
      <3>1. m - 1 \in 1 .. n
        BY <1>2
      <3>2. d.lru[m] = c.lru[m - 1] /\ c.lru[m - 1] \in DOMAIN c.pages
        BY <1>2, <1>7, <3>1
      <3>3. QED BY <3>2
    <2>2. CASE i = 1 \/ j = 1
      BY <1>2, <1>7, <1>9, <2>1, <2>2
    <2>3. CASE i # 1 /\ j # 1
      <3>1. i \in 2 .. n + 1 /\ j \in 2 .. n + 1 /\ i - 1 \in 1 .. n /\ j - 1 \in 1 .. n
        BY <1>2, <2>3
      <3>2. c.lru[i - 1] = c.lru[j - 1]
        BY <1>7, <1>9, <3>1
      <3>3. i - 1 = j - 1
        BY <1>2, <3>1, <3>2
      <3>4. QED BY <3>1, <3>3
    <2>4. QED BY <2>2, <2>3
  <1>10. PICK total : total = Totals(c)
    OBVIOUS
  <1>11. /\ total[0] = 0 /\ c.bytes = total[n]
         /\ \A i \in 1 .. n : total[i] = total[i - 1] + c.pages[c.lru[i]].bytes
         /\ \A i \in 0 .. n : total[i] \in Int
    BY <1>1, <1>10, TotalsAre
  <1>12. PICK t : t = [i \in 0 .. n + 1 |-> IF i = 0 THEN 0
                                           ELSE total[i - 1] + bytes]
    OBVIOUS
  <1>13. ASSUME NEW i \in 1 .. n + 1
         PROVE  t[i] = t[i - 1] + d.pages[d.lru[i]].bytes
    <2>1. CASE i = 1
      <3>1. t[1] = total[0] + bytes /\ t[0] = 0
        BY <1>2, <1>12
      <3>2. QED BY <1>6, <1>7, <1>11, <2>1, <3>1
    <2>2. CASE i # 1
      <3>1. /\ i \in 2 .. n + 1 /\ i - 1 \in 1 .. n /\ i - 2 \in 0 .. n
            /\ i \in 0 .. n + 1 /\ i - 1 \in 0 .. n + 1 /\ i # 0 /\ i - 1 # 0
            /\ (i - 1) - 1 = i - 2
        BY <1>2, <2>2
      <3>2. t[i] = total[i - 1] + bytes /\ t[i - 1] = total[i - 2] + bytes
        BY <1>12, <3>1
      <3>3. PICK size : size = c.pages[c.lru[i - 1]].bytes
        OBVIOUS
      <3>4. total[i - 1] = total[i - 2] + size
        BY <1>11, <3>1, <3>3
      <3>5. size \in Nat
        BY <1>2, <3>1, <3>3
      <3>6. d.pages[d.lru[i]].bytes = size
        <4>1. d.lru[i] = c.lru[i - 1] /\ c.lru[i - 1] \in DOMAIN c.pages
          BY <1>2, <1>7, <3>1
        <4>2. d.pages[c.lru[i - 1]] = c.pages[c.lru[i - 1]]
          BY <1>6, <4>1
        <4>3. QED BY <3>3, <4>1, <4>2
      <3>7. total[i - 2] \in Int
        BY <1>11, <3>1
      <3>8. QED BY <3>2, <3>4, <3>5, <3>6, <3>7
    <2>3. QED BY <2>1, <2>2
  <1>14. t[0] = 0 /\ d.bytes = t[n + 1]
    <2>1. n + 1 \in 0 .. n + 1 /\ n + 1 # 0 /\ (n + 1) - 1 = n /\ 0 \in 0 .. n + 1
      BY <1>2
    <2>2. QED BY <1>5, <1>11, <1>12, <2>1
  <1>15. SumsUp(d, t)
    BY <1>7, <1>13, <1>14 DEF SumsUp
  <1>16. \A k \in DOMAIN d.pages : d.pages[k].bytes \in Nat
    BY <1>2, <1>6
  <1>17. Sound(d)
    BY <1>7, <1>8, <1>9, <1>14, <1>15, <1>16, SoundBy
  <1>18. \A i \in 1 .. n : d.lru[i + 1] = c.lru[i]
    <2> TAKE i \in 1 .. n
    <2>1. i + 1 \in 2 .. n + 1 /\ (i + 1) - 1 = i
      BY <1>2
    <2>2. QED BY <1>7, <2>1
  <1>19. QED BY <1>1, <1>3, <1>4, <1>6, <1>7, <1>17, <1>18

LEMMA EvictLastSound ==
    ASSUME NEW c, Sound(c), Len(c.lru) # 0
    PROVE  /\ Sound(EvictLast(c))
           /\ Len(EvictLast(c).lru) = Len(c.lru) - 1
           /\ \A i \in 1 .. Len(c.lru) - 1 : EvictLast(c).lru[i] = c.lru[i]
           /\ Within(EvictLast(c), c)
  <1>1. PICK n : n = Len(c.lru)
    OBVIOUS
  <1>2. /\ n \in Nat /\ n # 0 /\ DOMAIN c.lru = 1 .. n
        /\ c.lru \in Seq(DOMAIN c.pages)
        /\ \A i \in 1 .. n : c.lru[i] \in DOMAIN c.pages
        /\ \A i, j \in 1 .. n : c.lru[i] = c.lru[j] => i = j
        /\ \A k \in DOMAIN c.pages : \E i \in 1 .. n : c.lru[i] = k
        /\ \A k \in DOMAIN c.pages : c.pages[k].bytes \in Nat
    BY <1>1, SoundIs
  <1>3. PICK d : d = EvictLast(c)
    OBVIOUS
  <1>4. /\ d.lru = SubSeq(c.lru, 1, n - 1)
        /\ d.pages = [k \in DOMAIN c.pages \ {c.lru[n]} |-> c.pages[k]]
        /\ d.bytes = c.bytes - c.pages[c.lru[n]].bytes
    BY <1>1, <1>3 DEF EvictLast
  <1>5. /\ DOMAIN d.pages = DOMAIN c.pages \ {c.lru[n]}
        /\ \A k \in DOMAIN d.pages : d.pages[k] = c.pages[k]
    BY <1>4
  <1>6. /\ Len(d.lru) = n - 1 /\ DOMAIN d.lru = 1 .. n - 1
        /\ \A i \in 1 .. n - 1 : d.lru[i] = c.lru[i]
    <2>1. PICK m : m = n - 1
      OBVIOUS
    <2>2. m \in Nat /\ m <= n /\ \A i \in 1 .. m : i \in 1 .. n
      BY <1>2, <2>1
    <2>3. /\ Len(SubSeq(c.lru, 1, m)) = m
          /\ DOMAIN SubSeq(c.lru, 1, m) = 1 .. m
          /\ \A i \in 1 .. m : SubSeq(c.lru, 1, m)[i] = c.lru[i]
      BY <1>1, <1>2, <2>2
    <2>4. QED BY <1>4, <2>1, <2>3
  <1>7. d.lru \in Seq(DOMAIN d.pages)
    <2>1. ASSUME NEW i \in 1 .. n - 1 PROVE d.lru[i] \in DOMAIN d.pages
      <3>1. i \in 1 .. n /\ n \in 1 .. n /\ i # n
        BY <1>2
      <3>2. c.lru[i] # c.lru[n] /\ c.lru[i] \in DOMAIN c.pages
        BY <1>2, <3>1
      <3>3. QED BY <1>5, <1>6, <3>2
    <2>2. d.lru \in [1 .. n - 1 -> DOMAIN d.pages]
      <3>1. d.lru \in Seq(DOMAIN c.pages)
        <4>1. PICK s, keys : s = c.lru /\ keys = DOMAIN c.pages
          OBVIOUS
        <4>2. n - 1 \in Int /\ \A i \in 1 .. n - 1 : s[i] \in keys
          <5>1. n \in Nat /\ \A i \in 1 .. n : s[i] \in keys
            BY <1>2, <4>1
          <5>2. QED BY <5>1
        <4>3. SubSeq(s, 1, n - 1) \in Seq(keys)
          BY <4>2, SubSeqProperties
        <4>4. QED BY <1>4, <4>1, <4>3
      <3>2. d.lru = [i \in 1 .. n - 1 |-> d.lru[i]]
        BY <1>6, <3>1, LenProperties
      <3>3. QED BY <2>1, <3>2
    <2>3. n - 1 \in Nat
      BY <1>2
    <2>4. QED BY <2>2, <2>3, FunctionIsSeq
  <1>8. \A k \in DOMAIN d.pages : \E i \in 1 .. n - 1 : d.lru[i] = k
    <2> TAKE k \in DOMAIN d.pages
    <2>1. PICK i \in 1 .. n : c.lru[i] = k
      BY <1>2, <1>5
    <2>2. i # n
      BY <1>5, <2>1
    <2>3. i \in 1 .. n - 1
      BY <1>2, <2>2
    <2>4. QED BY <1>6, <2>1, <2>3
  <1>9. \A i, j \in 1 .. n - 1 : d.lru[i] = d.lru[j] => i = j
    BY <1>2, <1>6
  <1>10. PICK t : t = Totals(c)
    OBVIOUS
  <1>11. /\ t[0] = 0 /\ c.bytes = t[n]
         /\ \A i \in 1 .. n : t[i] = t[i - 1] + c.pages[c.lru[i]].bytes
         /\ \A i \in 0 .. n : t[i] \in Int
    BY <1>1, <1>10, TotalsAre
  <1>12. SumsUp(d, t)
    <2>1. ASSUME NEW i \in 1 .. n - 1
          PROVE  t[i] = t[i - 1] + d.pages[d.lru[i]].bytes
      <3>1. i \in 1 .. n /\ i \in 1 .. Len(d.lru)
        BY <1>2, <1>6
      <3>2. d.lru[i] \in DOMAIN d.pages
        BY <1>7, <3>1, ElementOfSeq
      <3>3. QED BY <1>5, <1>6, <1>11, <3>1, <3>2
    <2>2. QED BY <1>6, <1>11, <2>1 DEF SumsUp
  <1>13. d.bytes = t[Len(d.lru)]
    <2>1. n \in 1 .. n /\ n - 1 \in 0 .. n
      BY <1>2
    <2>2. PICK size : size = c.pages[c.lru[n]].bytes
      OBVIOUS
    <2>3. t[n] = t[n - 1] + size
      BY <1>11, <2>1, <2>2
    <2>4. t[n - 1] \in Int /\ size \in Int
      <3>1. c.lru[n] \in DOMAIN c.pages
        BY <1>2, <2>1
      <3>2. size \in Nat
        BY <1>2, <2>2, <3>1
      <3>3. QED BY <1>11, <2>1, <3>2
    <2>5. t[n] - size = t[n - 1]
      BY <2>3, <2>4
    <2>6. QED BY <1>4, <1>6, <1>11, <2>2, <2>5
  <1>14. \A k \in DOMAIN d.pages : d.pages[k].bytes \in Nat
    BY <1>2, <1>5
  <1>15. Sound(d)
    BY <1>6, <1>7, <1>8, <1>9, <1>12, <1>13, <1>14, SoundBy
  <1>16. Within(d, c)
    BY <1>5 DEF Within
  <1>17. QED BY <1>1, <1>3, <1>6, <1>15, <1>16

-----------------------------------------------------------------------------
(* The eviction loop.                                                      *)

LEMMA EvictedRecursion ==
    ASSUME NEW c, Len(c.lru) \in Nat
    PROVE  Evicted(c) =
             [n \in 0 .. Len(c.lru) |->
                IF n = 0 THEN c ELSE EvictLast(Evicted(c)[n - 1])]
  <1> DEFINE Turns(n, g) ==
               g = [i \in 0 .. n |-> IF i = 0 THEN c ELSE EvictLast(g[i - 1])]
             Bad == {n \in Nat : ~ \E g : Turns(n, g)}
  <1>1. Bad = {}
    <2>1. SUFFICES ASSUME Bad # {} PROVE FALSE
      OBVIOUS
    <2>2. PICK n \in Bad : \A m \in Bad : n <= m
      <3>1. Bad \subseteq Nat
        OBVIOUS
      <3>2. QED BY <2>1, <3>1, LeastNatural
    <2>3. n # 0
      <3>1. PICK g : g = [i \in 0 .. 0 |-> c]
        OBVIOUS
      <3>2. Turns(0, g)
        BY <3>1
      <3>3. QED BY <3>2
    <2>4. n - 1 \in Nat /\ n - 1 \notin Bad
      <3>1. n \in Nat
        OBVIOUS
      <3>2. n - 1 \in Nat /\ ~(n <= n - 1)
        BY <2>3, <3>1
      <3>3. QED BY <2>2, <3>2
    <2>5. PICK g : Turns(n - 1, g)
      BY <2>4
    <2>6. PICK h : h = [i \in 0 .. n |-> IF i = n THEN EvictLast(g[n - 1])
                                         ELSE g[i]]
      OBVIOUS
    <2>7. n \in Nat /\ n > 0
      BY <2>3
    <2>8. \A i \in 0 .. n - 1 : h[i] = g[i]
      BY <2>6, <2>7
    <2>9. ASSUME NEW i \in 0 .. n
          PROVE  h[i] = IF i = 0 THEN c ELSE EvictLast(h[i - 1])
      <3>1. CASE i = n
        <4>1. h[n - 1] = g[n - 1]
          BY <2>7, <2>8
        <4>2. h[n] = EvictLast(g[n - 1])
          BY <2>6, <2>7
        <4>3. QED BY <2>7, <3>1, <4>1, <4>2
      <3>2. CASE i # n
        <4>1. i \in 0 .. n - 1 /\ (i # 0 => i - 1 \in 0 .. n - 1)
          BY <2>7, <3>2
        <4>2. h[i] = g[i] /\ (i # 0 => h[i - 1] = g[i - 1])
          BY <2>8, <4>1
        <4>3. g[i] = IF i = 0 THEN c ELSE EvictLast(g[i - 1])
          BY <2>5, <4>1
        <4>4. QED BY <4>2, <4>3
      <3>3. QED BY <3>1, <3>2
    <2>10. Turns(n, h)
      BY <2>6, <2>9
    <2>11. QED BY <2>10
  <1>2. PICK g : Turns(Len(c.lru), g)
    BY <1>1
  <1>3. QED BY <1>2 DEF Evicted

(* d is c without its last m keys.                                         *)
Without(d, c, m) ==
    /\ Sound(d)
    /\ Len(d.lru) = Len(c.lru) - m
    /\ \A i \in 1 .. Len(c.lru) - m : d.lru[i] = c.lru[i]
    /\ Within(d, c)

LEMMA EvictedSound ==
    ASSUME NEW c, Sound(c)
    PROVE  \A m \in 0 .. Len(c.lru) : Without(Evicted(c)[m], c, m)
  <1>0. Len(c.lru) \in Nat
    BY SoundIs
  <1>1. PICK bad : bad = {m \in 0 .. Len(c.lru) : ~Without(Evicted(c)[m], c, m)}
    OBVIOUS
  <1>2. SUFFICES ASSUME bad # {} PROVE FALSE
    BY <1>1
  <1>3. PICK m \in bad : \A l \in bad : m <= l
    <2>1. bad \subseteq Nat
      BY <1>1
    <2>2. QED BY <1>2, <2>1, LeastNatural
  <1>4. m \in 0 .. Len(c.lru) /\ ~Without(Evicted(c)[m], c, m)
    BY <1>1
  <1>5. CASE m = 0
    <2>1. Evicted(c)[0] = c
      BY <1>0, EvictedRecursion
    <2>2. Without(c, c, 0)
      BY <1>0 DEF Without, Within
    <2>3. QED BY <1>4, <1>5, <2>1, <2>2
  <1>6. CASE m # 0
    <2>1. PICK l : l = m - 1
      OBVIOUS
    <2>2. /\ l \in 0 .. Len(c.lru) /\ ~(m <= l) /\ m = l + 1
          /\ l < Len(c.lru) /\ l \in Nat
      BY <1>0, <1>4, <1>6, <2>1
    <2>3. PICK d : d = Evicted(c)[l]
      OBVIOUS
    <2>4. Without(d, c, l)
      BY <1>1, <1>3, <2>2, <2>3
    <2>5. Evicted(c)[m] = EvictLast(d)
      BY <1>0, <1>4, <1>6, <2>1, <2>3, EvictedRecursion
    <2>6. Sound(d) /\ Len(d.lru) = Len(c.lru) - l /\ Len(d.lru) # 0
      BY <1>0, <2>2, <2>4 DEF Without
    <2>7. PICK e : e = EvictLast(d)
      OBVIOUS
    <2>8. /\ Sound(e)
          /\ Len(e.lru) = Len(d.lru) - 1
          /\ \A i \in 1 .. Len(d.lru) - 1 : e.lru[i] = d.lru[i]
          /\ Within(e, d)
      BY <2>6, <2>7, EvictLastSound
    <2>9. Len(d.lru) - 1 = Len(c.lru) - m
      BY <1>0, <2>2, <2>6
    <2>10. \A i \in 1 .. Len(c.lru) - m : e.lru[i] = c.lru[i]
      <3> TAKE i \in 1 .. Len(c.lru) - m
      <3>1. i \in 1 .. Len(c.lru) - l
        BY <1>0, <2>2
      <3>2. QED BY <2>4, <2>8, <2>9, <3>1 DEF Without
    <2>11. Within(e, c)
      BY <2>4, <2>8 DEF Without, Within
    <2>12. Without(e, c, m)
      BY <2>8, <2>9, <2>10, <2>11 DEF Without
    <2>13. QED BY <1>4, <2>5, <2>7, <2>12
  <1>7. QED BY <1>5, <1>6

(* The loop leaves the newest key and stays within the budget, unless that *)
(* key is the only one.                                                    *)
LEMMA EvictIfNeededSound ==
    ASSUME NEW c, Sound(c), Len(c.lru) # 0, NEW max \in Nat
    PROVE  \E m \in 0 .. Len(c.lru) - 1 :
             /\ Without(EvictIfNeeded(c, max), c, m)
             /\ \/ EvictIfNeeded(c, max).bytes <= max
                \/ Len(EvictIfNeeded(c, max).lru) = 1
  <1>0. Len(c.lru) \in Nat /\ Len(c.lru) >= 1
    BY SoundIs
  <1>1. PICK n : n = Len(c.lru)
    OBVIOUS
  <1>2. \A m \in 0 .. n : Without(Evicted(c)[m], c, m)
    BY <1>1, EvictedSound
  <1>3. PICK stops : stops = {m \in 0 .. n : m = n \/ ~Evicts(Evicted(c)[m], max)}
    OBVIOUS
  <1>4. n - 1 \in stops
    <2>1. n - 1 \in 0 .. n
      BY <1>0, <1>1
    <2>2. Len(Evicted(c)[n - 1].lru) = n - (n - 1)
      BY <1>1, <1>2, <2>1 DEF Without
    <2>3. Len(Evicted(c)[n - 1].lru) = 1
      BY <1>0, <1>1, <2>2
    <2>4. ~Evicts(Evicted(c)[n - 1], max)
      BY <2>3 DEF Evicts
    <2>5. QED BY <1>3, <2>1, <2>4
  <1>5. PICK first \in stops : \A m \in stops : first <= m
    <2>1. stops \subseteq Nat
      BY <1>3
    <2>2. QED BY <1>4, <2>1, LeastNatural
  <1>6. first \in 0 .. n - 1
    BY <1>0, <1>1, <1>3, <1>4, <1>5
  <1>7. /\ first = n \/ ~Evicts(Evicted(c)[first], max)
        /\ \A m \in 0 .. first - 1 : Evicts(Evicted(c)[m], max)
    <2>1. first = n \/ ~Evicts(Evicted(c)[first], max)
      BY <1>3
    <2>2. ASSUME NEW m \in 0 .. first - 1 PROVE Evicts(Evicted(c)[m], max)
      <3>1. m \in 0 .. n /\ ~(first <= m)
        BY <1>0, <1>1, <1>6
      <3>2. m \notin stops
        BY <1>5, <3>1
      <3>3. QED BY <1>3, <3>1, <3>2
    <2>3. QED BY <2>1, <2>2
  <1>8. \A k \in 0 .. n :
          /\ k = n \/ ~Evicts(Evicted(c)[k], max)
          /\ \A m \in 0 .. k - 1 : Evicts(Evicted(c)[m], max)
          => k = first
    <2> SUFFICES ASSUME NEW k \in 0 .. n,
                        k = n \/ ~Evicts(Evicted(c)[k], max),
                        \A m \in 0 .. k - 1 : Evicts(Evicted(c)[m], max)
                 PROVE  k = first
      OBVIOUS
    <2>1. k \in stops
      BY <1>3
    <2>2. first <= k
      BY <1>5, <2>1
    <2>3. ~(first < k)
      <3> SUFFICES ASSUME first < k PROVE FALSE
        OBVIOUS
      <3>1. first \in 0 .. k - 1 /\ first # n
        BY <1>0, <1>1, <1>6
      <3>2. QED BY <1>7, <3>1
    <2>4. QED BY <1>0, <1>1, <1>6, <2>2, <2>3
  <1>9. EvictIfNeeded(c, max) = Evicted(c)[first]
    <2>1. PICK turns : turns = CHOOSE k \in 0 .. Len(c.lru) :
                         /\ \/ k = Len(c.lru)
                            \/ ~Evicts(Evicted(c)[k], max)
                         /\ \A m \in 0 .. k - 1 : Evicts(Evicted(c)[m], max)
      OBVIOUS
    <2>2. first \in 0 .. n
      BY <1>0, <1>1, <1>6
    <2>3. turns = first
      BY <1>1, <1>7, <1>8, <2>1, <2>2
    <2>4. EvictIfNeeded(c, max) = Evicted(c)[turns]
      BY <2>1 DEF EvictIfNeeded
    <2>5. QED BY <2>3, <2>4
  <1>10. PICK d : d = Evicted(c)[first]
    OBVIOUS
  <1>11. Without(d, c, first)
    BY <1>0, <1>1, <1>2, <1>6, <1>10
  <1>12. d.bytes <= max \/ Len(d.lru) = 1
    <2>1. ~(d.bytes > max /\ Len(d.lru) > 1)
      BY <1>0, <1>1, <1>6, <1>7, <1>10 DEF Evicts
    <2>2. Len(d.lru) = n - first
      BY <1>1, <1>11 DEF Without
    <2>3. Len(d.lru) >= 1 /\ Len(d.lru) \in Nat
      BY <1>0, <1>1, <1>6, <2>2
    <2>4. d.bytes \in Int
      <3>1. Sound(d)
        BY <1>11 DEF Without
      <3>2. QED BY <3>1, TotalsAre
    <2>5. PICK b, l : b = d.bytes /\ l = Len(d.lru)
      OBVIOUS
    <2>6. b \in Int /\ l \in Nat /\ l >= 1 /\ ~(b > max /\ l > 1)
      BY <2>1, <2>3, <2>4, <2>5
    <2>7. b <= max \/ l = 1
      BY <2>6
    <2>8. QED BY <2>5, <2>7
  <1>13. QED BY <1>1, <1>6, <1>9, <1>10, <1>11, <1>12

-----------------------------------------------------------------------------
(* A lookup.                                                               *)

Budgeted(c, max) == c.bytes <= max \/ Len(c.lru) = 1

(* `new' is `old' with the key moved to the front from place `at', and     *)
(* perhaps without its last places.                                        *)
MovedFront(new, old, key, at) ==
    /\ new[1] = key
    /\ Len(new) <= Len(old) + 1 /\ (at <= Len(old) => Len(new) <= Len(old))
    /\ \A i \in 2 .. Len(new) : new[i] = IF i <= at THEN old[i - 1] ELSE old[i]

LEMMA HitSound ==
    ASSUME NEW c, Sound(c), NEW max, Budgeted(c, max), NEW key \in DOMAIN c.pages
    PROVE  /\ Sound(Touch(c, key)) /\ Budgeted(Touch(c, key), max)
           /\ Touch(c, key).pages = c.pages
           /\ Len(Touch(c, key).lru) >= 1
           /\ \E at \in 1 .. Len(c.lru) :
                /\ c.lru[at] = key
                /\ MovedFront(Touch(c, key).lru, c.lru, key, at)
  <1>1. PICK n : n = Len(c.lru)
    OBVIOUS
  <1>2. PICK d : d = Touch(c, key)
    OBVIOUS
  <1>3. n \in Nat
    BY <1>1, SoundIs
  <1>4. /\ Sound(d) /\ d.pages = c.pages /\ d.bytes = c.bytes
        /\ \E at \in 1 .. n :
             /\ c.lru[at] = key
             /\ d.lru = [i \in 1 .. n |-> IF i = 1 THEN key
                                         ELSE IF i <= at THEN c.lru[i - 1]
                                         ELSE c.lru[i]]
    <2>1. /\ Sound(Touch(c, key))
          /\ Touch(c, key).pages = c.pages /\ Touch(c, key).bytes = c.bytes
          /\ \E at \in 1 .. Len(c.lru) :
               /\ c.lru[at] = key
               /\ Touch(c, key).lru =
                    [i \in 1 .. Len(c.lru) |-> IF i = 1 THEN key
                                               ELSE IF i <= at THEN c.lru[i - 1]
                                               ELSE c.lru[i]]
      BY TouchSound
    <2>2. QED BY <1>1, <1>2, <2>1
  <1>5. PICK at \in 1 .. n :
          /\ c.lru[at] = key
          /\ d.lru = [i \in 1 .. n |-> IF i = 1 THEN key
                                      ELSE IF i <= at THEN c.lru[i - 1]
                                      ELSE c.lru[i]]
    BY <1>4
  <1>6. Len(d.lru) = n
    <2>1. Len(d.lru) \in Nat /\ DOMAIN d.lru = 1 .. Len(d.lru)
      BY <1>4, SoundIs
    <2>2. DOMAIN d.lru = 1 .. n
      BY <1>5
    <2>3. QED BY <1>3, <2>1, <2>2
  <1>7. MovedFront(d.lru, c.lru, key, at)
    <2>1. d.lru[1] = key
      BY <1>3, <1>5
    <2>2. \A i \in 2 .. n : d.lru[i] = IF i <= at THEN c.lru[i - 1] ELSE c.lru[i]
      BY <1>3, <1>5
    <2>3. QED BY <1>1, <1>3, <1>6, <2>1, <2>2 DEF MovedFront
  <1>8. Budgeted(d, max)
    BY <1>1, <1>4, <1>6 DEF Budgeted
  <1>9. \E m \in 1 .. n : c.lru[m] = key /\ MovedFront(d.lru, c.lru, key, m)
    BY <1>5, <1>7
  <1>10. Len(d.lru) >= 1
    BY <1>3, <1>6
  <1>11. QED BY <1>1, <1>2, <1>4, <1>8, <1>9, <1>10

LEMMA MissSound ==
    ASSUME NEW c, Sound(c), NEW key, key \notin DOMAIN c.pages, NEW content,
           NEW bytes \in Nat, NEW max \in Nat,
           NEW d, d = Insert(c, key, content, bytes, max)
    PROVE  /\ Sound(d) /\ Budgeted(d, max) /\ key \in DOMAIN d.pages
           /\ d.pages[key] = [content |-> content, bytes |-> bytes]
           /\ \A k \in DOMAIN d.pages :
                k # key => k \in DOMAIN c.pages /\ d.pages[k] = c.pages[k]
           /\ Len(d.lru) >= 1
           /\ MovedFront(d.lru, c.lru, key, Len(c.lru) + 1)
  <1>1. PICK n : n = Len(c.lru)
    OBVIOUS
  <1>2. n \in Nat
    BY <1>1, SoundIs
  <1>3. PICK a : a = Add(c, key, content, bytes)
    OBVIOUS
  <1>4. /\ Sound(a) /\ Len(a.lru) = n + 1 /\ a.lru[1] = key
        /\ \A i \in 1 .. n : a.lru[i + 1] = c.lru[i]
        /\ DOMAIN a.pages = DOMAIN c.pages \cup {key}
        /\ a.pages[key] = [content |-> content, bytes |-> bytes]
        /\ \A k \in DOMAIN c.pages : a.pages[k] = c.pages[k]
    BY <1>1, <1>3, AddSound
  <1>5. d = EvictIfNeeded(a, max)
    BY <1>3 DEF Insert
  <1>6. PICK m \in 0 .. n : Without(d, a, m) /\ Budgeted(d, max)
    <2>1. Len(a.lru) # 0 /\ Len(a.lru) - 1 = n
      BY <1>2, <1>4
    <2>2. \E m \in 0 .. Len(a.lru) - 1 : Without(d, a, m) /\ Budgeted(d, max)
      <3>1. \E m \in 0 .. Len(a.lru) - 1 :
              /\ Without(EvictIfNeeded(a, max), a, m)
              /\ \/ EvictIfNeeded(a, max).bytes <= max
                 \/ Len(EvictIfNeeded(a, max).lru) = 1
        BY <1>4, <2>1, EvictIfNeededSound
      <3>2. QED BY <1>5, <3>1 DEF Budgeted
    <2>3. QED BY <2>1, <2>2
  <1>7. /\ Sound(d) /\ Len(d.lru) = n + 1 - m /\ Within(d, a)
        /\ \A i \in 1 .. n + 1 - m : d.lru[i] = a.lru[i]
    <2>1. /\ Sound(d) /\ Len(d.lru) = Len(a.lru) - m /\ Within(d, a)
          /\ \A i \in 1 .. Len(a.lru) - m : d.lru[i] = a.lru[i]
      BY <1>6 DEF Without
    <2>2. PICK l : l = Len(a.lru)
      OBVIOUS
    <2>3. l = n + 1
      BY <1>4, <2>2
    <2>4. l - m = n + 1 - m
      BY <1>2, <2>3
    <2>5. QED BY <2>1, <2>2, <2>4
  <1>8. Len(d.lru) \in Nat /\ Len(d.lru) >= 1 /\ Len(d.lru) <= n + 1
    BY <1>2, <1>7
  <1>9. d.lru[1] = key
    <2>1. 1 \in 1 .. n + 1 - m
      BY <1>2
    <2>2. QED BY <1>4, <1>7, <2>1
  <1>10. key \in DOMAIN d.pages
    <2>1. 1 \in 1 .. Len(d.lru)
      BY <1>8
    <2>2. d.lru[1] \in DOMAIN d.pages
      BY <1>7, <2>1, SoundIs
    <2>3. QED BY <1>9, <2>2
  <1>11. \A k \in DOMAIN d.pages : k \in DOMAIN a.pages /\ d.pages[k] = a.pages[k]
    BY <1>7 DEF Within
  <1>12. \A k \in DOMAIN d.pages :
           k # key => k \in DOMAIN c.pages /\ d.pages[k] = c.pages[k]
    BY <1>4, <1>11
  <1>13. d.pages[key] = [content |-> content, bytes |-> bytes]
    BY <1>4, <1>10, <1>11
  <1>14. \A i \in 2 .. Len(d.lru) : d.lru[i] = c.lru[i - 1] /\ i <= n + 1
    <2> TAKE i \in 2 .. Len(d.lru)
    <2>1. /\ i \in 1 .. n + 1 - m /\ i - 1 \in 1 .. n /\ (i - 1) + 1 = i
          /\ i <= n + 1
      BY <1>2, <1>7, <1>8
    <2>2. QED BY <1>4, <1>7, <2>1
  <1>15. MovedFront(d.lru, c.lru, key, n + 1)
    BY <1>1, <1>2, <1>8, <1>9, <1>14 DEF MovedFront
  <1>16. QED BY <1>1, <1>6, <1>7, <1>8, <1>10, <1>12, <1>13, <1>15

LEMMA EmptySound == Sound(EmptyCache) /\ \A max \in Nat : Budgeted(EmptyCache, max)
  <1>1. PICK t : t = [i \in {0} |-> 0]
    OBVIOUS
  <1>2. /\ EmptyCache.lru = <<>> /\ EmptyCache.bytes = 0
        /\ DOMAIN EmptyCache.pages = {}
    BY DEF EmptyCache
  <1>3. /\ EmptyCache.lru \in Seq(DOMAIN EmptyCache.pages)
        /\ Len(EmptyCache.lru) = 0
    BY <1>2, EmptySeq
  <1>4. SumsUp(EmptyCache, t) /\ EmptyCache.bytes = t[Len(EmptyCache.lru)]
    BY <1>1, <1>2, <1>3 DEF SumsUp
  <1>5. Sound(EmptyCache)
    <2>1. DOMAIN EmptyCache.lru = {}
      BY <1>2
    <2>2. Totals(EmptyCache)[0] = t[0]
      BY <1>3, <1>4, TotalsUnique
    <2>3. EmptyCache.bytes = Totals(EmptyCache)[Len(EmptyCache.lru)]
      BY <1>3, <1>4, <2>2
    <2>4. QED BY <1>2, <1>3, <2>1, <2>3 DEF Sound, Consistent
  <1>6. QED BY <1>2, <1>5 DEF Budgeted

LEMMA AccountsIs ==
    ASSUME NEW c, Sound(c), NEW max, Budgeted(c, max)
    PROVE  Accounts(c, max)
  BY DEF Sound, Budgeted, Accounts

-----------------------------------------------------------------------------
(* SSTableBlockCache.                                                      *)

(* The entry of a key is the block the key is made of.                     *)
BlockInv ==
    /\ Sound(block_cache) /\ Budgeted(block_cache, MaxBlockBytes)
    /\ \A k \in DOMAIN block_cache.pages : \E b \in DataBlocks :
         /\ k = CacheKey(b)
         /\ block_cache.pages[k].content = b
    /\ BlockReturned

(* A key is made of one block.                                             *)
LEMMA KeyOfBlock ==
    ASSUME NEW a \in DataBlocks, NEW b \in DataBlocks, CacheKey(a) = CacheKey(b)
    PROVE  a = b
  BY BlockCacheAssumption DEF CacheKey

LEMMA BlockInvInit == BlockInit => BlockInv
  <1> SUFFICES ASSUME BlockInit PROVE BlockInv
    OBVIOUS
  <1>1. block_cache = EmptyCache /\ block_asked = {} /\ block_answer = {}
    BY DEF BlockInit
  <1>2. Sound(block_cache) /\ Budgeted(block_cache, MaxBlockBytes)
    BY <1>1, EmptySound, BlockCacheAssumption
  <1>3. DOMAIN block_cache.pages = {}
    BY <1>1 DEF EmptyCache
  <1>4. QED BY <1>1, <1>2, <1>3 DEF BlockInv, BlockReturned

LEMMA BlockInvNext == BlockInv /\ [BlockNext]_block_vars => BlockInv'
  <1> SUFFICES ASSUME BlockInv, [BlockNext]_block_vars PROVE BlockInv'
    OBVIOUS
  <1>1. CASE UNCHANGED block_vars
    <2>1. /\ block_cache' = block_cache /\ block_asked' = block_asked
          /\ block_answer' = block_answer
      BY <1>1 DEF block_vars
    <2>2. Totals(block_cache)' = Totals(block_cache)
      BY <2>1 DEF Totals
    <2>3. Consistent(block_cache)
      BY DEF BlockInv, Sound
    <2>4. Consistent(block_cache)'
      BY <2>1, <2>2, <2>3 DEF Consistent
    <2>5. Sound(block_cache)' /\ Budgeted(block_cache, MaxBlockBytes)'
      BY <2>1, <2>4 DEF BlockInv, Sound, Budgeted
    <2>6. QED BY <2>1, <2>5 DEF BlockInv, BlockReturned
  <1>2. ASSUME NEW b \in DataBlocks, ReadBlock(b) PROVE BlockInv'
    <2>1. PICK key : key = CacheKey(b)
      OBVIOUS
    <2>2. PICK c : c = block_cache
      OBVIOUS
    <2>3. PICK d : d = Get(c, key, b, b.size, MaxBlockBytes)
      OBVIOUS
    <2>4. /\ block_cache' = d /\ block_asked' = {b}
          /\ block_answer' = IF key \in DOMAIN d.pages
                               THEN {d.pages[key].content} ELSE {}
      BY <1>2, <2>1, <2>2, <2>3 DEF ReadBlock
    <2>5. /\ Sound(c) /\ Budgeted(c, MaxBlockBytes)
          /\ \A k \in DOMAIN c.pages : \E a \in DataBlocks :
               k = CacheKey(a) /\ c.pages[k].content = a
      BY <2>2 DEF BlockInv
    <2>6. b.size \in Nat /\ MaxBlockBytes \in Nat
      BY BlockCacheAssumption
    <2>7. /\ Sound(d) /\ Budgeted(d, MaxBlockBytes)
          /\ key \in DOMAIN d.pages /\ d.pages[key].content = b
          /\ \A k \in DOMAIN d.pages : \E a \in DataBlocks :
               k = CacheKey(a) /\ d.pages[k].content = a
      <3>1. CASE key \in DOMAIN c.pages
        <4>1. d = Touch(c, key)
          BY <2>3, <3>1 DEF Get
        <4>2. Sound(d) /\ Budgeted(d, MaxBlockBytes) /\ d.pages = c.pages
          BY <2>5, <3>1, <4>1, HitSound
        <4>3. PICK a \in DataBlocks : key = CacheKey(a) /\ c.pages[key].content = a
          BY <2>5, <3>1
        <4>4. a = b
          BY <2>1, <4>3, KeyOfBlock
        <4>5. QED BY <2>5, <3>1, <4>2, <4>3, <4>4
      <3>2. CASE key \notin DOMAIN c.pages
        <4>1. d = Insert(c, key, b, b.size, MaxBlockBytes)
          BY <2>3, <3>2 DEF Get
        <4>2. /\ Sound(d) /\ Budgeted(d, MaxBlockBytes) /\ key \in DOMAIN d.pages
              /\ d.pages[key] = [content |-> b, bytes |-> b.size]
              /\ \A k \in DOMAIN d.pages :
                   k # key => k \in DOMAIN c.pages /\ d.pages[k] = c.pages[k]
          BY <2>5, <2>6, <3>2, <4>1, MissSound
        <4>3. d.pages[key].content = b
          BY <4>2
        <4>4. ASSUME NEW k \in DOMAIN d.pages
              PROVE  \E a \in DataBlocks :
                       k = CacheKey(a) /\ d.pages[k].content = a
          <5>1. CASE k = key
            BY <2>1, <4>3, <5>1
          <5>2. CASE k # key
            BY <2>5, <4>2, <5>2
          <5>3. QED BY <5>1, <5>2
        <4>5. QED BY <4>2, <4>3, <4>4
      <3>3. QED BY <3>1, <3>2
    <2>8. block_answer' = block_asked'
      BY <2>4, <2>7
    <2>9. /\ Sound(block_cache)' /\ Budgeted(block_cache, MaxBlockBytes)'
      <3>1. block_cache' = d
        BY <2>4
      <3>2. Totals(block_cache)' = Totals(d)
        BY <3>1 DEF Totals
      <3>3. Consistent(d)
        BY <2>7 DEF Sound
      <3>4. Consistent(block_cache)'
        BY <3>1, <3>2, <3>3 DEF Consistent
      <3>5. QED BY <2>7, <3>1, <3>4 DEF Sound, Budgeted
    <2>10. QED BY <2>4, <2>7, <2>8, <2>9 DEF BlockInv, BlockReturned
  <1>3. QED BY <1>1, <1>2 DEF BlockNext

(* Under any budget and however blocks come and go, a cursor gets the      *)
(* block it asked for: read_row_block and read_column_block.               *)
THEOREM BlocksReturned == BlockSpec => []BlockReturned
  <1>1. BlockInv => BlockReturned
    BY DEF BlockInv
  <1>2. QED BY <1>1, BlockInvInit, BlockInvNext, PTL DEF BlockSpec

-----------------------------------------------------------------------------
(* Numbers.                                                                *)

LEMMA MinOfTwo ==
    ASSUME NEW a \in Int, NEW b \in Int
    PROVE  Min({a, b}) = IF a <= b THEN a ELSE b
  <1>1. PICK m : m = IF a <= b THEN a ELSE b
    OBVIOUS
  <1>2. m \in {a, b} /\ \A y \in {a, b} : m <= y
    BY <1>1
  <1>3. \A x \in {a, b} : (\A y \in {a, b} : x <= y) => x = m
    BY <1>1
  <1>4. Min({a, b}) = m
    BY <1>2, <1>3 DEF Min
  <1>5. QED BY <1>1, <1>4

LEMMA MaxOfTwo ==
    ASSUME NEW a \in Int, NEW b \in Int
    PROVE  Max({a, b}) = IF a >= b THEN a ELSE b
  <1>1. PICK m : m = IF a >= b THEN a ELSE b
    OBVIOUS
  <1>2. m \in {a, b} /\ \A y \in {a, b} : m >= y
    BY <1>1
  <1>3. \A x \in {a, b} : (\A y \in {a, b} : x >= y) => x = m
    BY <1>1
  <1>4. Max({a, b}) = m
    BY <1>2, <1>3 DEF Max
  <1>5. QED BY <1>1, <1>4

LEMMA DivMod ==
    ASSUME NEW m \in Nat, NEW w \in Nat \ {0}
    PROVE  /\ m \div w \in Nat /\ m % w \in 0 .. w - 1
           /\ m = w * (m \div w) + (m % w)
  OBVIOUS

LEMMA DivModUnique ==
    ASSUME NEW w \in Nat \ {0}, NEW q \in Int, NEW r \in 0 .. w - 1,
           NEW p \in Int, NEW s \in 0 .. w - 1, w * q + r = w * p + s
    PROVE  q = p /\ r = s
  <1>1. w * (q - p) = s - r
    OBVIOUS
  <1>2. ~(q - p >= 1)
    <2> SUFFICES ASSUME q - p >= 1 PROVE FALSE
      OBVIOUS
    <2>1. w * (q - p) >= w
      OBVIOUS
    <2>2. QED BY <1>1, <2>1
  <1>3. ~(q - p <= -1)
    <2> SUFFICES ASSUME q - p <= -1 PROVE FALSE
      OBVIOUS
    <2>1. w * (q - p) <= -w
      OBVIOUS
    <2>2. QED BY <1>1, <2>1
  <1>4. q = p
    BY <1>2, <1>3
  <1>5. QED BY <1>1, <1>4

(* The columns of the blocks before do not matter for the place in one.    *)
LEMMA DivShift ==
    ASSUME NEW a \in Nat, NEW w \in Nat \ {0}, NEW m \in Nat
    PROVE  (a * w + m) \div w = a + m \div w /\ (a * w + m) % w = m % w
  <1>1. PICK q, r : q = m \div w /\ r = m % w
    OBVIOUS
  <1>2. q \in Nat /\ r \in 0 .. w - 1 /\ m = w * q + r
    BY <1>1, DivMod
  <1>3. PICK x : x = a * w + m
    OBVIOUS
  <1>4. PICK p, s : p = x \div w /\ s = x % w
    OBVIOUS
  <1>5. x \in Nat
    BY <1>3
  <1>6. p \in Int /\ s \in 0 .. w - 1 /\ x = w * p + s
    BY <1>4, <1>5, DivMod
  <1>7. a + q \in Int /\ x = w * (a + q) + r
    BY <1>2, <1>3
  <1>8. p = a + q /\ s = r
    BY <1>2, <1>6, <1>7, DivModUnique
  <1>9. QED BY <1>1, <1>3, <1>4, <1>8

-----------------------------------------------------------------------------
(* The entries of the metadata and statistics files.                       *)

Kinds == {"row", "column", "stats"}

(* The entry at a place, counted from block b.                             *)
EntryAt(kind, column, b, i) ==
    IF kind = "column"
      THEN <<b + ((i - 1) \div ColumnsCount), (i - 1) % ColumnsCount>>
      ELSE IF kind = "row" THEN <<b + (i - 1)>> ELSE <<b + (i - 1), column>>

LEMMA WidthType == \A kind : Width(kind) \in Nat \ {0}
  BY MetadataAssumption DEF Width

LEMMA EntriesAre ==
    ASSUME NEW kind \in Kinds, NEW column \in Nat, ~Absent(kind, column),
           NEW first \in Nat, NEW count \in Nat
    PROVE  /\ ReadEntries(kind, column, first, count) =
                [i \in 1 .. count * Width(kind) |-> EntryAt(kind, column, first, i)]
           /\ ReadEntries(kind, column, first, count) \in Seq(Seq(Int))
           /\ Len(ReadEntries(kind, column, first, count)) = count * Width(kind)
  <1>1. PICK n : n = count * Width(kind)
    OBVIOUS
  <1>2. n \in Nat
    BY <1>1, WidthType
  <1>3. PICK r : r = ReadEntries(kind, column, first, count)
    OBVIOUS
  <1>4. r = [i \in 1 .. n |-> EntryAt(kind, column, first, i)]
    <2>1. CASE kind = "row"
      BY <1>1, <1>3, <2>1 DEF ReadEntries, EntryAt, Width
    <2>2. CASE kind = "column"
      BY <1>1, <1>3, <2>2 DEF ReadEntries, EntryAt, Width
    <2>3. CASE kind = "stats"
      BY <1>1, <1>3, <2>3 DEF ReadEntries, EntryAt, Width, Absent
    <2>4. QED BY <2>1, <2>2, <2>3 DEF Kinds
  <1>5. ASSUME NEW i \in 1 .. n PROVE EntryAt(kind, column, first, i) \in Seq(Int)
    <2>1. i - 1 \in Nat
      BY <1>2
    <2>2. PICK w, m : w = ColumnsCount /\ m = i - 1
      OBVIOUS
    <2>3. w \in Nat \ {0} /\ m \in Nat
      BY <2>1, <2>2, MetadataAssumption
    <2>4. m \div w \in Nat /\ m % w \in 0 .. w - 1
      BY <2>3, DivMod
    <2>5. first + (m \div w) \in Int /\ m % w \in Int
      BY <2>3, <2>4
    <2>6. QED BY <2>1, <2>2, <2>3, <2>5 DEF EntryAt
  <1>6. r \in [1 .. n -> Seq(Int)]
    BY <1>4, <1>5
  <1>7. r \in Seq(Seq(Int)) /\ Len(r) = n
    BY <1>2, <1>6, FunctionIsSeq
  <1>8. QED BY <1>1, <1>3, <1>4, <1>7

(* Blocks may be counted from any block.                                   *)
LEMMA EntryShift ==
    ASSUME NEW kind \in Kinds, NEW column, NEW b \in Nat, NEW a \in Nat,
           NEW j \in Nat \ {0}
    PROVE  EntryAt(kind, column, b, a * Width(kind) + j) =
             EntryAt(kind, column, b + a, j)
  <1>1. CASE kind = "column"
    <2>1. PICK w : w = ColumnsCount
      OBVIOUS
    <2>2. w \in Nat \ {0} /\ Width(kind) = w
      BY <1>1, <2>1, MetadataAssumption DEF Width
    <2>3. PICK m : m = j - 1
      OBVIOUS
    <2>4. m \in Nat /\ (a * w + j) - 1 = a * w + m
      BY <2>2, <2>3
    <2>5. (a * w + m) \div w = a + (m \div w) /\ (a * w + m) % w = m % w
      BY <2>2, <2>4, DivShift
    <2>6. PICK q : q = m \div w
      OBVIOUS
    <2>7. q \in Nat
      BY <2>2, <2>4, <2>6, DivMod
    <2>8. b + (a + q) = (b + a) + q
      BY <2>7
    <2>9. EntryAt(kind, column, b, a * Width(kind) + j)
            = <<b + (((a * w + j) - 1) \div w), ((a * w + j) - 1) % w>>
      BY <1>1, <2>1, <2>2 DEF EntryAt
    <2>10. EntryAt(kind, column, b + a, j) = <<(b + a) + (m \div w), m % w>>
      BY <1>1, <2>1, <2>3 DEF EntryAt
    <2>11. QED BY <2>4, <2>5, <2>6, <2>8, <2>9, <2>10
  <1>2. CASE kind # "column"
    <2>1. Width(kind) = 1
      BY <1>2 DEF Width
    <2>2. b + ((a * 1 + j) - 1) = (b + a) + (j - 1)
      OBVIOUS
    <2>3. QED BY <1>2, <2>1, <2>2 DEF EntryAt
  <1>3. QED BY <1>1, <1>2

(* Blocks x to y of those from `start' continue the first a from `first'.  *)
Continues(kind, column, first, a, start, count, x, y) ==
    ReadEntries(kind, column, first, a)
      \o SubSeq(ReadEntries(kind, column, start, count),
                x * Width(kind) + 1, y * Width(kind))
      = ReadEntries(kind, column, first, a + (y - x))

(* The entries copied from a page continue the ones before.                *)
LEMMA EntriesContinue ==
    ASSUME NEW kind \in Kinds, NEW column \in Nat, ~Absent(kind, column),
           NEW first \in Nat, NEW a \in Nat,
           NEW start \in Nat, NEW count \in Nat,
           NEW x \in Nat, NEW y \in Nat, x <= y, y <= count,
           first + a = start + x
    PROVE  Continues(kind, column, first, a, start, count, x, y)
  <1>1. PICK w : w = Width(kind)
    OBVIOUS
  <1>2. w \in Nat \ {0}
    BY <1>1, WidthType
  <1>3. PICK b : b = a + (y - x)
    OBVIOUS
  <1>4. b \in Nat
    BY <1>3
  <1>5. PICK f, content, all : /\ f = ReadEntries(kind, column, first, a)
                               /\ content = ReadEntries(kind, column, start, count)
                               /\ all = ReadEntries(kind, column, first, b)
    OBVIOUS
  <1>6. /\ f \in Seq(Seq(Int)) /\ Len(f) = a * w
        /\ \A i \in 1 .. a * w : f[i] = EntryAt(kind, column, first, i)
    <2>1. /\ ReadEntries(kind, column, first, a) =
               [i \in 1 .. a * Width(kind) |-> EntryAt(kind, column, first, i)]
          /\ ReadEntries(kind, column, first, a) \in Seq(Seq(Int))
          /\ Len(ReadEntries(kind, column, first, a)) = a * Width(kind)
      BY EntriesAre
    <2>2. QED BY <1>1, <1>5, <2>1
  <1>7. /\ content \in Seq(Seq(Int)) /\ Len(content) = count * w
        /\ \A i \in 1 .. count * w : content[i] = EntryAt(kind, column, start, i)
    <2>1. /\ ReadEntries(kind, column, start, count) =
               [i \in 1 .. count * Width(kind) |-> EntryAt(kind, column, start, i)]
          /\ ReadEntries(kind, column, start, count) \in Seq(Seq(Int))
          /\ Len(ReadEntries(kind, column, start, count)) = count * Width(kind)
      BY EntriesAre
    <2>2. QED BY <1>1, <1>5, <2>1
  <1>8. /\ all \in Seq(Seq(Int)) /\ Len(all) = b * w
        /\ \A i \in 1 .. b * w : all[i] = EntryAt(kind, column, first, i)
    <2>1. /\ ReadEntries(kind, column, first, b) =
               [i \in 1 .. b * Width(kind) |-> EntryAt(kind, column, first, i)]
          /\ ReadEntries(kind, column, first, b) \in Seq(Seq(Int))
          /\ Len(ReadEntries(kind, column, first, b)) = b * Width(kind)
      BY <1>4, EntriesAre
    <2>2. QED BY <1>1, <1>5, <2>1
  <1>9. PICK xw, yw, cw, aw, bw :
          xw = x * w /\ yw = y * w /\ cw = count * w /\ aw = a * w /\ bw = b * w
    OBVIOUS
  <1>10. /\ xw \in Nat /\ yw \in Nat /\ cw \in Nat /\ aw \in Nat /\ bw \in Nat
         /\ xw <= yw /\ yw <= cw /\ bw = aw + (yw - xw)
    <2>1. xw \in Nat /\ yw \in Nat /\ cw \in Nat /\ aw \in Nat /\ bw \in Nat
      BY <1>2, <1>4, <1>9
    <2>2. (y - x) * w >= 0 /\ (count - y) * w >= 0
      BY <1>2
    <2>3. (y - x) * w = yw - xw /\ (count - y) * w = cw - yw
      BY <1>2, <1>9
    <2>4. bw = aw + (y - x) * w
      BY <1>2, <1>3, <1>9
    <2>5. QED BY <2>1, <2>2, <2>3, <2>4
  <1>11. PICK g : g = SubSeq(content, xw + 1, yw)
    OBVIOUS
  <1>12. /\ g \in Seq(Seq(Int)) /\ Len(g) = yw - xw
         /\ \A j \in 1 .. yw - xw : g[j] = content[xw + j]
    <2>1. xw + 1 \in Int /\ yw \in Int
      BY <1>10
    <2>2. \A i \in xw + 1 .. yw : content[i] \in Seq(Int)
      <3> TAKE i \in xw + 1 .. yw
      <3>1. i \in 1 .. Len(content)
        <4>1. Len(content) = cw
          BY <1>7, <1>9
        <4>2. i \in 1 .. cw
          BY <1>10
        <4>3. QED BY <4>1, <4>2
      <3>2. QED BY <1>7, <3>1, ElementOfSeq
    <2>3. /\ g \in Seq(Seq(Int))
          /\ Len(g) = IF xw + 1 <= yw THEN (yw - (xw + 1)) + 1 ELSE 0
          /\ \A j \in 1 .. (yw - (xw + 1)) + 1 : g[j] = content[(xw + 1) + j - 1]
      BY <1>11, <2>1, <2>2, SubSeqProperties
    <2>4. (yw - (xw + 1)) + 1 = yw - xw /\ (~(xw + 1 <= yw) => yw - xw = 0)
      BY <1>10
    <2>5. \A j \in 1 .. yw - xw : (xw + 1) + j - 1 = xw + j
      BY <1>10
    <2>6. QED BY <2>3, <2>4, <2>5
  <1>13. /\ f \o g \in Seq(Seq(Int)) /\ Len(f \o g) = bw
         /\ \A i \in 1 .. bw : (f \o g)[i] = IF i <= aw THEN f[i] ELSE g[i - aw]
    <2>1. /\ f \o g \in Seq(Seq(Int)) /\ Len(f \o g) = Len(f) + Len(g)
          /\ \A i \in 1 .. Len(f) + Len(g) :
               (f \o g)[i] = IF i <= Len(f) THEN f[i] ELSE g[i - Len(f)]
      BY <1>6, <1>12, ConcatProperties
    <2>2. Len(f) = aw /\ Len(f) + Len(g) = bw
      BY <1>6, <1>9, <1>10, <1>12
    <2>3. QED BY <2>1, <2>2
  <1>14. ASSUME NEW i \in 1 .. bw PROVE (f \o g)[i] = all[i]
    <2>1. all[i] = EntryAt(kind, column, first, i)
      BY <1>8, <1>9
    <2>2. CASE i <= aw
      <3>1. i \in 1 .. aw
        BY <1>10, <2>2
      <3>2. QED BY <1>6, <1>9, <1>13, <2>1, <2>2, <3>1
    <2>3. CASE ~(i <= aw)
      <3>1. PICK j : j = i - aw
        OBVIOUS
      <3>2. /\ j \in 1 .. yw - xw /\ j \in Nat \ {0} /\ i = aw + j
            /\ xw + j \in 1 .. cw
        BY <1>10, <2>3, <3>1
      <3>3. (f \o g)[i] = content[xw + j]
        BY <1>12, <1>13, <2>3, <3>1, <3>2
      <3>4. content[xw + j] = EntryAt(kind, column, start, xw + j)
        BY <1>7, <1>9, <3>2
      <3>5. EntryAt(kind, column, start, xw + j)
              = EntryAt(kind, column, start + x, j)
        BY <1>1, <1>9, <3>2, EntryShift
      <3>6. EntryAt(kind, column, first, aw + j)
              = EntryAt(kind, column, first + a, j)
        BY <1>1, <1>9, <3>2, EntryShift
      <3>7. QED BY <2>1, <3>2, <3>3, <3>4, <3>5, <3>6
    <2>4. QED BY <2>2, <2>3
  <1>15. f \o g = all
    BY <1>8, <1>9, <1>13, <1>14, SeqEqual
  <1>16. QED BY <1>1, <1>3, <1>5, <1>9, <1>11, <1>15 DEF Continues

-----------------------------------------------------------------------------
(* The pages of a call.                                                    *)

(* The block up to which n pages have been copied.                         *)
Reached(first, last, n) ==
    LET border == (first \div PageBlocks + n) * PageBlocks
    IN  IF n = 0 THEN first ELSE IF border <= last THEN border ELSE last

(* The number of pages that a present kind reads.                          *)
Pages(first, last) == (last - 1) \div PageBlocks - first \div PageBlocks + 1

LEMMA PagesPositive ==
    ASSUME NEW first \in Nat, NEW last \in Nat, first < last
    PROVE  Pages(first, last) \in Nat \ {0}
  <1>1. PICK p, lead, final : /\ p = PageBlocks /\ lead = first \div p
                              /\ final = (last - 1) \div p
    OBVIOUS
  <1>2. p \in Nat \ {0} /\ last - 1 \in Nat
    BY <1>1, MetadataAssumption
  <1>3. PICK r, s : r = first % p /\ s = (last - 1) % p
    OBVIOUS
  <1>4. /\ lead \in Nat /\ r \in 0 .. p - 1 /\ first = p * lead + r
        /\ final \in Nat /\ s \in 0 .. p - 1 /\ last - 1 = p * final + s
    BY <1>1, <1>2, <1>3, DivMod
  <1>5. ~(final < lead)
    <2> SUFFICES ASSUME final < lead PROVE FALSE
      OBVIOUS
    <2>1. lead - final >= 1
      BY <1>4
    <2>2. p * (lead - final) >= p
      BY <1>2, <1>4, <2>1
    <2>3. p * lead >= p * final + p
      BY <1>2, <1>4, <2>2
    <2>4. QED BY <1>2, <1>4, <2>3
  <1>6. QED BY <1>1, <1>4, <1>5 DEF Pages

(* The first block of a page, and what it has of the range.                *)
Borders(first, last, n, page) ==
    /\ page \in Nat /\ PageFirstBlock(page) \in Nat
    /\ PageBlockCount(page) \in Nat
    /\ Reached(first, last, n - 1) \in Nat /\ Reached(first, last, n) \in Nat
    /\ Max({first, PageFirstBlock(page)}) = Reached(first, last, n - 1)
    /\ Min({last, PageFirstBlock(page) + PageBlockCount(page)})
         = Reached(first, last, n)
    /\ first <= Reached(first, last, n - 1)
    /\ PageFirstBlock(page) <= Reached(first, last, n - 1)
    /\ Reached(first, last, n - 1) <= Reached(first, last, n)
    /\ Reached(first, last, n) <= PageFirstBlock(page) + PageBlockCount(page)

(* A page begins where the ones before it end, and what it has of the      *)
(* range ends where it does or with the range.                             *)
LEMMA PageBorders ==
    ASSUME NEW first \in Nat, NEW last \in Nat, first < last, last <= NumBlocks,
           NEW n \in 1 .. Pages(first, last),
           NEW page, page = first \div PageBlocks + n - 1
    PROVE  Borders(first, last, n, page)
  <1>1. PICK p, lead, final : /\ p = PageBlocks /\ lead = first \div p
                              /\ final = (last - 1) \div p
    OBVIOUS
  <1>2. p \in Nat \ {0} /\ last - 1 \in Nat /\ NumBlocks \in Nat
    BY <1>1, MetadataAssumption
  <1>3. PICK r, s : r = first % p /\ s = (last - 1) % p
    OBVIOUS
  <1>4. /\ lead \in Nat /\ r \in 0 .. p - 1 /\ first = p * lead + r
        /\ final \in Nat /\ s \in 0 .. p - 1 /\ last - 1 = p * final + s
    BY <1>1, <1>2, <1>3, DivMod
  <1>5. n \in Nat \ {0} /\ page = lead + (n - 1) /\ page \in Nat /\ page <= final
    <2>1. Pages(first, last) = (final - lead) + 1
      BY <1>1, <1>4 DEF Pages
    <2>2. n \in 1 .. (final - lead) + 1
      BY <2>1
    <2>3. page = lead + (n - 1)
      BY <1>1, <1>4, <2>2
    <2>4. QED BY <1>4, <2>2, <2>3
  <1>6. PICK start : start = page * p
    OBVIOUS
  <1>7. start \in Nat /\ start <= last - 1
    <2>1. start \in Nat
      BY <1>2, <1>5, <1>6
    <2>2. p * (final - page) >= 0
      BY <1>2, <1>4, <1>5
    <2>3. p * (final - page) = p * final - start
      <3>1. p \in Int /\ final \in Int /\ page \in Int
        BY <1>2, <1>4, <1>5
      <3>2. p * (final - page) = p * final - p * page
        BY <3>1
      <3>3. start = p * page
        BY <1>6, <3>1
      <3>4. QED BY <3>2, <3>3
    <2>4. QED BY <1>2, <1>4, <2>1, <2>2, <2>3
  <1>8. first < start + p
    <2>1. (n - 1) * p >= 0
      BY <1>2, <1>5
    <2>2. start = p * lead + (n - 1) * p
      BY <1>2, <1>4, <1>5, <1>6
    <2>3. p * lead \in Nat
      BY <1>2, <1>4
    <2>4. QED BY <1>2, <1>4, <1>7, <2>1, <2>2, <2>3
  <1>9. n # 1 => first < start
    <2> SUFFICES ASSUME n # 1 PROVE first < start
      OBVIOUS
    <2>1. n - 2 \in Nat
      BY <1>5
    <2>2. (n - 2) * p >= 0
      BY <1>2, <2>1
    <2>3. start = (p * lead + p) + (n - 2) * p
      BY <1>2, <1>4, <1>5, <1>6
    <2>4. p * lead \in Nat
      BY <1>2, <1>4
    <2>5. QED BY <1>2, <1>4, <1>7, <2>2, <2>3, <2>4
  <1>10. n = 1 => start <= first
    BY <1>2, <1>4, <1>5, <1>6
  <1>11. PageFirstBlock(page) = start
    BY <1>1, <1>6 DEF PageFirstBlock
  <1>12. PICK count : count = PageBlockCount(page)
    OBVIOUS
  <1>13. count = IF p <= NumBlocks - start THEN p ELSE NumBlocks - start
    <2>1. count = Min({p, NumBlocks - start})
      BY <1>1, <1>11, <1>12 DEF PageBlockCount
    <2>2. p \in Int /\ NumBlocks - start \in Int
      BY <1>2, <1>7
    <2>3. QED BY <2>1, <2>2, MinOfTwo
  <1>14. count \in Nat /\ count >= 1
    BY <1>2, <1>7, <1>13
  <1>15. PICK was, now : /\ was = Reached(first, last, n - 1)
                         /\ now = Reached(first, last, n)
    OBVIOUS
  <1>16. was = IF n = 1 THEN first ELSE start
    <2>1. (lead + (n - 1)) * p = start
      BY <1>5, <1>6
    <2>2. n - 1 = 0 <=> n = 1
      BY <1>5
    <2>3. start <= last
      BY <1>7
    <2>4. QED BY <1>1, <1>15, <2>1, <2>2, <2>3 DEF Reached
  <1>17. now = IF start + p <= last THEN start + p ELSE last
    <2>1. (lead + n) * p = start + p
      BY <1>2, <1>4, <1>5, <1>6
    <2>2. n # 0
      BY <1>5
    <2>3. QED BY <1>1, <1>15, <2>1, <2>2 DEF Reached
  <1>18. was \in Nat /\ now \in Nat
    BY <1>2, <1>7, <1>16, <1>17
  <1>19. Max({first, start}) = was
    <2>1. Max({first, start}) = IF first >= start THEN first ELSE start
      BY <1>7, MaxOfTwo
    <2>2. QED BY <1>7, <1>9, <1>10, <1>16, <2>1
  <1>20. Min({last, start + count}) = now
    <2>1. start + count \in Int
      BY <1>7, <1>14
    <2>2. Min({last, start + count}) = IF last <= start + count THEN last
                                       ELSE start + count
      BY <2>1, MinOfTwo
    <2>3. QED BY <1>2, <1>7, <1>13, <1>14, <1>17, <2>2
  <1>21. first <= was /\ start <= was /\ was <= now
    BY <1>2, <1>7, <1>8, <1>9, <1>10, <1>16, <1>17
  <1>22. now <= start + count
    BY <1>2, <1>7, <1>13, <1>14, <1>17
  <1>23. QED
    BY <1>5, <1>7, <1>11, <1>12, <1>14, <1>15, <1>18, <1>19, <1>20, <1>21,
       <1>22 DEF Borders

(* The last page reaches the end of the range.                             *)
LEMMA AllReached ==
    ASSUME NEW first \in Nat, NEW last \in Nat, first < last
    PROVE  Reached(first, last, Pages(first, last)) = last
  <1>1. PICK p, lead, final : /\ p = PageBlocks /\ lead = first \div p
                              /\ final = (last - 1) \div p
    OBVIOUS
  <1>2. p \in Nat \ {0} /\ last - 1 \in Nat
    BY <1>1, MetadataAssumption
  <1>3. PICK s : s = (last - 1) % p
    OBVIOUS
  <1>4. lead \in Nat /\ final \in Nat /\ s \in 0 .. p - 1 /\ last - 1 = p * final + s
    BY <1>1, <1>2, <1>3, DivMod
  <1>5. PICK n : n = Pages(first, last)
    OBVIOUS
  <1>6. n \in Nat \ {0} /\ lead + n = final + 1
    <2>1. n \in Nat \ {0}
      BY <1>5, PagesPositive
    <2>2. n = (final - lead) + 1
      BY <1>1, <1>4, <1>5 DEF Pages
    <2>3. QED BY <1>4, <2>1, <2>2
  <1>7. (lead + n) * p >= last
    <2>1. (final + 1) * p = p * final + p
      BY <1>2, <1>4
    <2>2. p * final \in Nat
      BY <1>2, <1>4
    <2>3. QED BY <1>2, <1>4, <1>6, <2>1, <2>2
  <1>8. (lead + n) * p \in Nat
    BY <1>2, <1>4, <1>6
  <1>9. QED BY <1>1, <1>5, <1>6, <1>7, <1>8 DEF Reached

-----------------------------------------------------------------------------
(* The pages used last.                                                    *)

PageKeys == Kinds \X Nat \X Nat

(* The list of uses names each page once, and begins like the list of the  *)
(* cache.                                                                  *)
UsesOk(list, lru) ==
    /\ list \in Seq(PageKeys) /\ Len(list) <= HistoryLength
    /\ \A i, j \in 1 .. Len(list) : list[i] = list[j] => i = j
    /\ \A i \in 1 .. Len(lru) :
         i <= HistoryLength => i <= Len(list) /\ list[i] = lru[i]

LEMMA UseNowIs ==
    ASSUME NEW list \in Seq(PageKeys), Len(list) <= HistoryLength,
           \A i, j \in 1 .. Len(list) : list[i] = list[j] => i = j,
           NEW key \in PageKeys
    PROVE  \E at \in 1 .. Len(list) + 1 :
             /\ at <= Len(list) => list[at] = key
             /\ at = Len(list) + 1 => \A i \in 1 .. Len(list) : list[i] # key
             /\ UseNow(list, key) =
                  [i \in 1 .. (IF at <= Len(list) \/ Len(list) = HistoryLength
                                 THEN Len(list) ELSE Len(list) + 1) |->
                     IF i = 1 THEN key ELSE IF i <= at THEN list[i - 1]
                     ELSE list[i]]
  <1>1. PICK n : n = Len(list)
    OBVIOUS
  <1>2. /\ n \in Nat /\ DOMAIN list = 1 .. n /\ HistoryLength \in Nat
        /\ n <= HistoryLength
    BY <1>1, MetadataAssumption
  <1>3. PICK at : at = IF \E i \in DOMAIN list : list[i] = key
                         THEN CHOOSE i \in DOMAIN list : list[i] = key
                         ELSE n + 1
    OBVIOUS
  <1>4. /\ at \in 1 .. n + 1
        /\ at <= n => list[at] = key
        /\ at = n + 1 => \A i \in 1 .. n : list[i] # key
    <2>1. CASE \E i \in DOMAIN list : list[i] = key
      <3>1. at \in DOMAIN list /\ list[at] = key
        BY <1>3, <2>1
      <3>2. QED BY <1>2, <3>1
    <2>2. CASE ~ \E i \in DOMAIN list : list[i] = key
      BY <1>2, <1>3, <2>2
    <2>3. QED BY <2>1, <2>2
  <1>5. PICK size : size = IF at <= n \/ n = HistoryLength THEN n ELSE n + 1
    OBVIOUS
  <1>6. Min({HistoryLength, Max({at, n})}) = size
    <2>1. PICK m : m = Max({at, n})
      OBVIOUS
    <2>2. m = IF at >= n THEN at ELSE n
      BY <1>2, <1>4, <2>1, MaxOfTwo
    <2>3. m \in Int
      BY <1>2, <1>4, <2>2
    <2>4. Min({HistoryLength, m}) = IF HistoryLength <= m THEN HistoryLength ELSE m
      BY <1>2, <2>3, MinOfTwo
    <2>5. QED BY <1>2, <1>4, <1>5, <2>1, <2>2, <2>4
  <1>7. UseNow(list, key) =
          [i \in 1 .. size |-> IF i = 1 THEN key
                               ELSE IF i <= at THEN list[i - 1] ELSE list[i]]
    BY <1>1, <1>3, <1>6 DEF UseNow
  <1>8. QED BY <1>1, <1>4, <1>5, <1>7

LEMMA UsesMove ==
    ASSUME NEW list, NEW old, UsesOk(list, old), NEW key \in PageKeys,
           Len(old) \in Nat,
           \A i, j \in 1 .. Len(old) : old[i] = old[j] => i = j,
           NEW at \in 1 .. Len(old) + 1, at <= Len(old) => old[at] = key,
           at = Len(old) + 1 => \A i \in 1 .. Len(old) : old[i] # key,
           NEW new, Len(new) \in Nat, MovedFront(new, old, key, at)
    PROVE  UsesOk(UseNow(list, key), new)
  <1>1. PICK n, o, h : n = Len(list) /\ o = Len(old) /\ h = HistoryLength
    OBVIOUS
  <1>2. /\ list \in Seq(PageKeys) /\ n \in Nat /\ o \in Nat /\ h \in Nat /\ n <= h
        /\ \A i \in 1 .. n : list[i] \in PageKeys
        /\ \A i, j \in 1 .. n : list[i] = list[j] => i = j
        /\ \A i \in 1 .. o : i <= h => i <= n /\ list[i] = old[i]
    BY <1>1, MetadataAssumption DEF UsesOk
  <1>3. /\ at \in 1 .. o + 1 /\ (at <= o => old[at] = key)
        /\ at = o + 1 => \A i \in 1 .. o : old[i] # key
        /\ \A i, j \in 1 .. o : old[i] = old[j] => i = j
    BY <1>1
  <1>4. PICK now : now = UseNow(list, key)
    OBVIOUS
  <1>5. \E p \in 1 .. n + 1 :
          /\ p <= n => list[p] = key
          /\ p = n + 1 => \A i \in 1 .. n : list[i] # key
          /\ now = [i \in 1 .. (IF p <= n \/ n = h THEN n ELSE n + 1) |->
                      IF i = 1 THEN key ELSE IF i <= p THEN list[i - 1]
                      ELSE list[i]]
    <2>1. /\ list \in Seq(PageKeys) /\ Len(list) <= HistoryLength
          /\ \A i, j \in 1 .. Len(list) : list[i] = list[j] => i = j
      BY DEF UsesOk
    <2>2. \E p \in 1 .. Len(list) + 1 :
             /\ p <= Len(list) => list[p] = key
             /\ p = Len(list) + 1 => \A i \in 1 .. Len(list) : list[i] # key
             /\ UseNow(list, key) =
                  [i \in 1 .. (IF p <= Len(list) \/ Len(list) = HistoryLength
                                 THEN Len(list) ELSE Len(list) + 1) |->
                     IF i = 1 THEN key ELSE IF i <= p THEN list[i - 1]
                     ELSE list[i]]
      BY <2>1, UseNowIs
    <2>3. QED BY <1>1, <1>4, <2>2
  <1>6. PICK p \in 1 .. n + 1 :
          /\ p <= n => list[p] = key
          /\ p = n + 1 => \A i \in 1 .. n : list[i] # key
          /\ now = [i \in 1 .. (IF p <= n \/ n = h THEN n ELSE n + 1) |->
                      IF i = 1 THEN key ELSE IF i <= p THEN list[i - 1]
                      ELSE list[i]]
    BY <1>5
  <1>7. PICK size : size = IF p <= n \/ n = h THEN n ELSE n + 1
    OBVIOUS
  <1>8. /\ size \in Nat /\ size <= h /\ size <= n + 1
        /\ now = [i \in 1 .. size |-> IF i = 1 THEN key
                                      ELSE IF i <= p THEN list[i - 1] ELSE list[i]]
    BY <1>2, <1>6, <1>7
  <1>9. \A i \in 1 .. size :
          /\ i = 1 => now[i] = key
          /\ i # 1 /\ i <= p => i - 1 \in 1 .. n /\ now[i] = list[i - 1]
          /\ i > p /\ i # 1 => i \in 1 .. n /\ now[i] = list[i]
    <2> TAKE i \in 1 .. size
    <2>1. i = 1 => now[i] = key
      BY <1>8
    <2>2. i # 1 /\ i <= p => i - 1 \in 1 .. n /\ now[i] = list[i - 1]
      BY <1>2, <1>6, <1>8
    <2>3. i > p /\ i # 1 => i \in 1 .. n /\ now[i] = list[i]
      <3> SUFFICES ASSUME i > p, i # 1 PROVE i \in 1 .. n /\ now[i] = list[i]
        OBVIOUS
      <3>1. i \in 1 .. n
        BY <1>2, <1>6, <1>7, <1>8
      <3>2. i \in Nat /\ p \in Nat /\ ~(i <= p)
        BY <1>6, <1>8
      <3>3. QED BY <1>8, <3>1, <3>2
    <2>4. QED BY <2>1, <2>2, <2>3
  <1>10. now \in Seq(PageKeys) /\ Len(now) = size
    <2>1. \A i \in 1 .. size : now[i] \in PageKeys
      BY <1>2, <1>6, <1>8, <1>9
    <2>2. now \in [1 .. size -> PageKeys]
      BY <1>8, <2>1
    <2>3. QED BY <1>8, <2>2, FunctionIsSeq
  <1>11. ASSUME NEW i \in 1 .. size, i # 1 PROVE now[i] # key
    <2>1. CASE i <= p
      <3>1. i - 1 \in 1 .. n /\ now[i] = list[i - 1] /\ i - 1 # p
        BY <1>6, <1>8, <1>9, <1>11, <2>1
      <3>2. CASE p = n + 1
        BY <1>6, <3>1, <3>2
      <3>3. CASE p # n + 1
        <4>1. p \in 1 .. n /\ list[p] = key
          BY <1>2, <1>6, <3>3
        <4>2. QED BY <1>2, <3>1, <4>1
      <3>4. QED BY <3>2, <3>3
    <2>2. CASE i > p
      <3>1. i \in 1 .. n /\ now[i] = list[i]
        BY <1>9, <1>11, <2>2
      <3>2. p \in 1 .. n /\ list[p] = key /\ p # i
        BY <1>2, <1>6, <2>2, <3>1
      <3>3. QED BY <1>2, <3>1, <3>2
    <2>3. QED BY <1>6, <1>8, <2>1, <2>2
  <1>12. ASSUME NEW i \in 1 .. size, NEW j \in 1 .. size, now[i] = now[j]
         PROVE  i = j
    <2>1. CASE i = 1 \/ j = 1
      BY <1>9, <1>11, <1>12, <2>1
    <2>2. CASE i # 1 /\ j # 1
      <3>1. PICK a, b : /\ a = IF i <= p THEN i - 1 ELSE i
                        /\ b = IF j <= p THEN j - 1 ELSE j
        OBVIOUS
      <3>2. a \in 1 .. n /\ now[i] = list[a]
        BY <1>6, <1>8, <1>9, <2>2, <3>1
      <3>3. b \in 1 .. n /\ now[j] = list[b]
        BY <1>6, <1>8, <1>9, <2>2, <3>1
      <3>4. a = b
        BY <1>2, <1>12, <3>2, <3>3
      <3>5. a # p /\ b # p
        BY <1>6, <1>8, <3>1
      <3>6. QED BY <1>6, <1>8, <3>1, <3>4, <3>5
    <2>3. QED BY <2>1, <2>2
  <1>13. /\ new[1] = key /\ Len(new) <= o + 1 /\ (at <= o => Len(new) <= o)
         /\ \A i \in 2 .. Len(new) : new[i] = IF i <= at THEN old[i - 1] ELSE old[i]
    BY <1>1 DEF MovedFront
  <1>14. ASSUME NEW i \in 1 .. Len(new), i <= h
         PROVE  i <= size /\ now[i] = new[i]
    <2>1. CASE i = 1
      <3>1. size >= 1
        BY <1>2, <1>6, <1>7, <1>14, <2>1
      <3>2. QED BY <1>8, <1>9, <1>13, <2>1, <3>1
    <2>2. CASE i # 1 /\ i <= at
      <3>1. /\ i \in 2 .. Len(new) /\ i - 1 \in 1 .. o /\ i - 1 <= h
            /\ new[i] = old[i - 1]
        BY <1>3, <1>13, <2>2, <1>14, <1>2
      <3>2. i - 1 <= n /\ list[i - 1] = old[i - 1] /\ i - 1 \in 1 .. n
        BY <1>2, <3>1
      <3>3. ~(p <= i - 1)
        <4> SUFFICES ASSUME p <= i - 1 PROVE FALSE
          OBVIOUS
        <4>1. /\ p \in 1 .. n /\ p \in 1 .. o /\ p <= h /\ list[p] = key /\ p # at
              /\ p <= n
          BY <1>2, <1>3, <1>6, <2>2, <3>1, <3>2
        <4>2. old[p] = key
          BY <1>2, <4>1
        <4>3. CASE at = o + 1
          BY <1>3, <4>1, <4>2, <4>3
        <4>4. CASE at # o + 1
          <5>1. at \in 1 .. o /\ old[at] = key
            BY <1>2, <1>3, <4>4
          <5>2. QED BY <1>3, <4>1, <4>2, <5>1
        <4>5. QED BY <4>3, <4>4
      <3>4. i <= p
        BY <1>6, <3>1, <3>3
      <3>5. i <= size
        BY <1>2, <1>6, <1>7, <1>14, <3>2, <3>4
      <3>6. i \in 1 .. size
        BY <3>5
      <3>7. now[i] = list[i - 1]
        BY <1>9, <2>2, <3>4, <3>6
      <3>8. QED BY <3>1, <3>2, <3>5, <3>7
    <2>3. CASE i # 1 /\ ~(i <= at)
      <3>1. /\ i \in 2 .. Len(new) /\ at \in 1 .. o /\ i \in 1 .. o /\ at <= h
            /\ new[i] = old[i] /\ old[at] = key
        BY <1>2, <1>3, <1>13, <1>14, <2>3
      <3>2. /\ i \in 1 .. n /\ list[i] = old[i] /\ at \in 1 .. n
            /\ list[at] = old[at]
        BY <1>2, <1>14, <3>1
      <3>3. p = at
        <4>1. p # n + 1
          BY <1>6, <3>1, <3>2
        <4>2. p \in 1 .. n /\ list[p] = key
          BY <1>2, <1>6, <4>1
        <4>3. QED BY <1>2, <3>1, <3>2, <4>2
      <3>4. i \in 1 .. size
        BY <1>2, <1>7, <3>2
      <3>5. i > p
        BY <1>6, <2>3, <3>3
      <3>6. now[i] = list[i]
        BY <1>9, <2>3, <3>4, <3>5
      <3>7. QED BY <3>1, <3>2, <3>4, <3>6
    <2>4. QED BY <2>1, <2>2, <2>3
  <1>15. QED BY <1>1, <1>4, <1>8, <1>10, <1>12, <1>14 DEF UsesOk

-----------------------------------------------------------------------------
(* SSTableMetadataCache.                                                   *)

(* What the reader delivers for a page.                                    *)
Entries(kind, column, page) ==
    ReadEntries(kind, column, PageFirstBlock(page), PageBlockCount(page))

(* Every page cached is what the reader would deliver for it.              *)
Contents(c) ==
    \A kind \in Kinds, page \in Nat, column \in Nat :
      <<kind, page, column>> \in DOMAIN c.pages =>
        c.pages[<<kind, page, column>>].content = Entries(kind, column, page)

(* What a call finds, and every turn of its loop.                          *)
CacheInv(c, list) ==
    /\ Sound(c) /\ Budgeted(c, MaxBytes)
    /\ Contents(c)
    /\ UsesOk(list, c.lru)

MetaInv == CacheInv(cache, uses) /\ ReadExact

LEMMA PageBytesType ==
    ASSUME NEW kind \in Kinds, NEW column \in Nat, NEW page \in Nat,
           PageFirstBlock(page) \in Nat, PageBlockCount(page) \in Nat
    PROVE  PageBytes(kind, Entries(kind, column, page)) \in Nat
  <1>1. CASE Absent(kind, column)
    BY <1>1 DEF Absent, Entries, ReadEntries, PageBytes
  <1>2. CASE ~Absent(kind, column)
    <2>1. PICK n, w : n = PageBlockCount(page) /\ w = Width(kind)
      OBVIOUS
    <2>2. Len(Entries(kind, column, page)) = n * w
      BY <1>2, <2>1, EntriesAre DEF Entries
    <2>3. n * w \in Nat
      BY <2>1, WidthType
    <2>4. (n * w) * EntryBytes \in Nat
      BY <2>3, MetadataAssumption
    <2>5. QED BY <2>2, <2>4 DEF PageBytes
  <1>3. QED BY <1>1, <1>2

(* get_row_page, get_column_page, get_stats_page: the reference returned   *)
(* is to the entries of the page, and it is still in the cache.            *)
LEMMA PageGot ==
    ASSUME NEW c, NEW list, CacheInv(c, list),
           NEW kind \in Kinds, NEW column \in Nat, NEW page \in Nat,
           PageFirstBlock(page) \in Nat, PageBlockCount(page) \in Nat,
           NEW key, key = <<kind, page, column>>,
           NEW d, d = GetPage(c, kind, column, page)
    PROVE  /\ CacheInv(d, UseNow(list, key))
           /\ key \in DOMAIN d.pages
           /\ d.pages[key].content = Entries(kind, column, page)
  <1>1. PICK entries, bytes : /\ entries = Entries(kind, column, page)
                              /\ bytes = PageBytes(kind, entries)
    OBVIOUS
  <1>2. bytes \in Nat /\ MaxBytes \in Nat
    BY <1>1, PageBytesType, MetadataAssumption
  <1>3. d = Get(c, key, entries, bytes, MaxBytes)
    BY <1>1 DEF GetPage, Entries
  <1>4. /\ Sound(c) /\ Budgeted(c, MaxBytes) /\ Contents(c) /\ UsesOk(list, c.lru)
    BY DEF CacheInv
  <1>5. key \in PageKeys
    BY DEF PageKeys
  <1>6. PICK o : o = Len(c.lru)
    OBVIOUS
  <1>7. /\ o \in Nat
        /\ \A i \in 1 .. o : c.lru[i] \in DOMAIN c.pages
        /\ \A i, j \in 1 .. o : c.lru[i] = c.lru[j] => i = j
    BY <1>4, <1>6, SoundIs
  <1>8. /\ Sound(d) /\ Budgeted(d, MaxBytes) /\ Len(d.lru) \in Nat
        /\ key \in DOMAIN d.pages /\ d.pages[key].content = entries
        /\ \A k \in DOMAIN d.pages :
             k # key => k \in DOMAIN c.pages /\ d.pages[k] = c.pages[k]
        /\ \E at \in 1 .. o + 1 :
             /\ at <= o => c.lru[at] = key
             /\ at = o + 1 => \A i \in 1 .. o : c.lru[i] # key
             /\ MovedFront(d.lru, c.lru, key, at)
    <2>1. CASE key \in DOMAIN c.pages
      <3>1. d = Touch(c, key)
        BY <1>3, <2>1 DEF Get
      <3>2. /\ Sound(d) /\ Budgeted(d, MaxBytes) /\ d.pages = c.pages
            /\ \E at \in 1 .. Len(c.lru) :
                 c.lru[at] = key /\ MovedFront(d.lru, c.lru, key, at)
        <4>1. /\ Sound(Touch(c, key)) /\ Budgeted(Touch(c, key), MaxBytes)
              /\ Touch(c, key).pages = c.pages
              /\ \E at \in 1 .. Len(c.lru) :
                   /\ c.lru[at] = key
                   /\ MovedFront(Touch(c, key).lru, c.lru, key, at)
          BY <1>4, <2>1, HitSound
        <4>2. QED BY <3>1, <4>1
      <3>3. PICK at \in 1 .. o : c.lru[at] = key /\ MovedFront(d.lru, c.lru, key, at)
        BY <1>6, <3>2
      <3>4. at \in 1 .. o + 1 /\ at # o + 1
        BY <1>7
      <3>5. c.pages[key].content = entries
        BY <1>1, <1>4, <2>1 DEF Contents
      <3>6. Len(d.lru) \in Nat
        BY <3>2, SoundIs
      <3>7. QED BY <2>1, <3>2, <3>3, <3>4, <3>5, <3>6
    <2>2. CASE key \notin DOMAIN c.pages
      <3>1. d = Insert(c, key, entries, bytes, MaxBytes)
        BY <1>3, <2>2 DEF Get
      <3>2. /\ Sound(d) /\ Budgeted(d, MaxBytes) /\ key \in DOMAIN d.pages
            /\ d.pages[key] = [content |-> entries, bytes |-> bytes]
            /\ \A k \in DOMAIN d.pages :
                 k # key => k \in DOMAIN c.pages /\ d.pages[k] = c.pages[k]
            /\ MovedFront(d.lru, c.lru, key, Len(c.lru) + 1)
        BY <1>2, <1>4, <2>2, <3>1, MissSound
      <3>3. d.pages[key].content = entries
        BY <3>2
      <3>4. \A i \in 1 .. o : c.lru[i] # key
        BY <1>7, <2>2
      <3>5. o + 1 \in 1 .. o + 1 /\ ~(o + 1 <= o)
        BY <1>7
      <3>6. \E at \in 1 .. o + 1 :
              /\ at <= o => c.lru[at] = key
              /\ at = o + 1 => \A i \in 1 .. o : c.lru[i] # key
              /\ MovedFront(d.lru, c.lru, key, at)
        BY <1>6, <3>2, <3>4, <3>5
      <3>7. Len(d.lru) \in Nat
        BY <3>2, SoundIs
      <3>8. QED BY <3>2, <3>3, <3>6, <3>7
    <2>3. QED BY <2>1, <2>2
  <1>9. UsesOk(UseNow(list, key), d.lru)
    <2>1. PICK at \in 1 .. Len(c.lru) + 1 :
            /\ at <= Len(c.lru) => c.lru[at] = key
            /\ at = Len(c.lru) + 1 => \A i \in 1 .. Len(c.lru) : c.lru[i] # key
            /\ MovedFront(d.lru, c.lru, key, at)
      BY <1>6, <1>8
    <2>2. /\ Len(c.lru) \in Nat
          /\ \A i, j \in 1 .. Len(c.lru) : c.lru[i] = c.lru[j] => i = j
      BY <1>6, <1>7
    <2>3. QED BY <1>4, <1>5, <1>8, <2>1, <2>2, UsesMove
  <1>10. Contents(d)
    <2> SUFFICES ASSUME NEW k \in Kinds, NEW p \in Nat, NEW col \in Nat,
                        <<k, p, col>> \in DOMAIN d.pages
                 PROVE  d.pages[<<k, p, col>>].content = Entries(k, col, p)
      BY DEF Contents
    <2>1. CASE <<k, p, col>> = key
      <3>1. k = kind /\ p = page /\ col = column
        BY <2>1
      <3>2. QED BY <1>1, <1>8, <2>1, <3>1
    <2>2. CASE <<k, p, col>> # key
      <3>1. /\ <<k, p, col>> \in DOMAIN c.pages
            /\ d.pages[<<k, p, col>>] = c.pages[<<k, p, col>>]
        BY <1>8, <2>2
      <3>2. QED BY <1>4, <3>1 DEF Contents
    <2>3. QED BY <2>1, <2>2
  <1>11. QED BY <1>1, <1>8, <1>9, <1>10 DEF CacheInv

(* The loop, turn by turn.                                                 *)
LEMMA ReadingRecursion ==
    ASSUME NEW kind, NEW column, NEW first, NEW last,
           PagesRead(kind, column, first, last) \in Nat
    PROVE  Reading(kind, column, first, last) =
             [n \in 0 .. PagesRead(kind, column, first, last) |->
                IF n = 0 THEN [cache |-> cache, uses |-> uses, out |-> <<>>]
                ELSE ReadPage(kind, column, first, last,
                              first \div PageBlocks + n - 1,
                              Reading(kind, column, first, last)[n - 1])]
  <1> DEFINE Start == [cache |-> cache, uses |-> uses, out |-> <<>>]
             Turn(i, r) == ReadPage(kind, column, first, last,
                                    first \div PageBlocks + i - 1, r)
             Turns(n, g) ==
               g = [i \in 0 .. n |-> IF i = 0 THEN Start ELSE Turn(i, g[i - 1])]
             Bad == {n \in Nat : ~ \E g : Turns(n, g)}
  <1> HIDE DEF Start, Turn
  <1>1. Bad = {}
    <2>1. SUFFICES ASSUME Bad # {} PROVE FALSE
      OBVIOUS
    <2>2. PICK n \in Bad : \A m \in Bad : n <= m
      <3>1. Bad \subseteq Nat
        OBVIOUS
      <3>2. QED BY <2>1, <3>1, LeastNatural
    <2>3. n # 0
      <3>1. PICK g : g = [i \in 0 .. 0 |-> Start]
        OBVIOUS
      <3>2. Turns(0, g)
        BY <3>1
      <3>3. QED BY <3>2
    <2>4. n - 1 \in Nat /\ n - 1 \notin Bad
      <3>1. n \in Nat
        OBVIOUS
      <3>2. n - 1 \in Nat /\ ~(n <= n - 1)
        BY <2>3, <3>1
      <3>3. QED BY <2>2, <3>2
    <2>5. PICK g : Turns(n - 1, g)
      BY <2>4
    <2>6. PICK h : h = [i \in 0 .. n |-> IF i = n THEN Turn(n, g[n - 1]) ELSE g[i]]
      OBVIOUS
    <2>7. n \in Nat /\ n > 0
      BY <2>3
    <2>8. \A i \in 0 .. n - 1 : h[i] = g[i]
      BY <2>6, <2>7
    <2>9. ASSUME NEW i \in 0 .. n
          PROVE  h[i] = IF i = 0 THEN Start ELSE Turn(i, h[i - 1])
      <3>1. CASE i = n
        <4>1. h[n - 1] = g[n - 1]
          BY <2>7, <2>8
        <4>2. h[n] = Turn(n, g[n - 1])
          BY <2>6, <2>7
        <4>3. QED BY <2>7, <3>1, <4>1, <4>2
      <3>2. CASE i # n
        <4>1. i \in 0 .. n - 1 /\ (i # 0 => i - 1 \in 0 .. n - 1)
          BY <2>7, <3>2
        <4>2. h[i] = g[i] /\ (i # 0 => h[i - 1] = g[i - 1])
          BY <2>8, <4>1
        <4>3. g[i] = IF i = 0 THEN Start ELSE Turn(i, g[i - 1])
          BY <2>5, <4>1
        <4>4. QED BY <4>2, <4>3
      <3>3. QED BY <3>1, <3>2
    <2>10. Turns(n, h)
      BY <2>6, <2>9
    <2>11. QED BY <2>10
  <1>2. PICK g : Turns(PagesRead(kind, column, first, last), g)
    BY <1>1
  <1>3. QED BY <1>2 DEF Reading, Start, Turn

(* One turn: the entries copied continue those copied before.              *)
LEMMA PageRead ==
    ASSUME NEW kind \in Kinds, NEW column \in Nat,
           NEW first \in Nat, NEW last \in Nat, first < last, last <= NumBlocks,
           NEW n \in 1 .. PagesRead(kind, column, first, last),
           NEW r, CacheInv(r.cache, r.uses),
           ~Absent(kind, column) =>
             r.out = ReadEntries(kind, column, first,
                                 Reached(first, last, n - 1) - first),
           Absent(kind, column) => r.out = <<>>,
           NEW page, page = first \div PageBlocks + n - 1,
           NEW s, s = ReadPage(kind, column, first, last, page, r)
    PROVE  /\ CacheInv(s.cache, s.uses)
           /\ ~Absent(kind, column) =>
                s.out = ReadEntries(kind, column, first,
                                    Reached(first, last, n) - first)
           /\ Absent(kind, column) => s.out = <<>>
  <1>1. n \in 1 .. Pages(first, last)
    <2>1. Pages(first, last) \in Nat \ {0}
      BY PagesPositive
    <2>2. CASE Absent(kind, column)
      BY <2>1, <2>2 DEF PagesRead
    <2>3. CASE ~Absent(kind, column)
      BY <2>3 DEF PagesRead, Pages
    <2>4. QED BY <2>2, <2>3
  <1>2. PICK start, count, was, now :
          /\ start = PageFirstBlock(page) /\ count = PageBlockCount(page)
          /\ was = Reached(first, last, n - 1) /\ now = Reached(first, last, n)
    OBVIOUS
  <1>3. /\ page \in Nat /\ start \in Nat /\ count \in Nat
        /\ was \in Nat /\ now \in Nat
        /\ Max({first, start}) = was /\ Min({last, start + count}) = now
        /\ first <= was /\ start <= was /\ was <= now /\ now <= start + count
    <2>1. Borders(first, last, n, page)
      BY <1>1, PageBorders
    <2>2. QED BY <1>2, <2>1 DEF Borders
  <1>4. PICK key, c, d :
          /\ key = <<kind, page, column>> /\ c = r.cache
          /\ d = GetPage(c, kind, column, page)
    OBVIOUS
  <1>5. /\ CacheInv(d, UseNow(r.uses, key))
        /\ key \in DOMAIN d.pages
        /\ d.pages[key].content = Entries(kind, column, page)
    <2>1. CacheInv(c, r.uses)
      BY <1>4
    <2>2. PageFirstBlock(page) \in Nat /\ PageBlockCount(page) \in Nat
      BY <1>2, <1>3
    <2>3. QED BY <1>3, <1>4, <2>1, <2>2, PageGot
  <1>6. PICK copied : copied = Copied(kind, Entries(kind, column, page), page,
                                      first, last)
    OBVIOUS
  <1>7. s = [cache |-> d, uses |-> UseNow(r.uses, key),
             out |-> IF Absent(kind, column) THEN <<>> ELSE r.out \o copied]
    BY <1>4, <1>5, <1>6 DEF ReadPage
  <1>8. CacheInv(s.cache, s.uses)
    BY <1>5, <1>7
  <1>9. Absent(kind, column) => s.out = <<>>
    BY <1>7
  <1>10. ASSUME ~Absent(kind, column)
         PROVE  s.out = ReadEntries(kind, column, first, now - first)
    <2>1. PICK a, x, y : a = was - first /\ x = was - start /\ y = now - start
      OBVIOUS
    <2>2. /\ a \in Nat /\ x \in Nat /\ y \in Nat /\ x <= y /\ y <= count
          /\ first + a = start + x /\ a + (y - x) = now - first
      BY <1>3, <2>1
    <2>3. copied = SubSeq(ReadEntries(kind, column, start, count),
                          x * Width(kind) + 1, y * Width(kind))
      BY <1>2, <1>3, <1>6, <2>1 DEF Copied, Entries
    <2>4. r.out = ReadEntries(kind, column, first, a)
      BY <1>2, <1>10, <2>1
    <2>5. s.out = r.out \o copied
      BY <1>7, <1>10
    <2>6. Continues(kind, column, first, a, start, count, x, y)
      BY <1>3, <1>10, <2>2, EntriesContinue
    <2>7. QED BY <2>2, <2>3, <2>4, <2>5, <2>6 DEF Continues
  <1>11. QED BY <1>2, <1>8, <1>9, <1>10

(* A call returns the entries asked for, and leaves the cache as it should *)
(* be.                                                                     *)
LEMMA CallReads ==
    ASSUME MetaInv, NEW kind \in Kinds, NEW column \in Nat,
           NEW first \in Nat, NEW count \in Nat \ {0}, Call(kind, column, first, count)
    PROVE  MetaInv'
  <1>1. PICK last : last = first + count
    OBVIOUS
  <1>2. last \in Nat /\ first < last /\ last <= NumBlocks
    BY <1>1 DEF Call
  <1>3. PICK pages : pages = PagesRead(kind, column, first, last)
    OBVIOUS
  <1>4. pages \in Nat \ {0}
    <2>1. Pages(first, last) \in Nat \ {0}
      BY <1>2, PagesPositive
    <2>2. QED BY <1>3, <2>1 DEF PagesRead, Pages
  <1>5. PICK after : after = Reading(kind, column, first, last)
    OBVIOUS
  <1>6. after = [n \in 0 .. pages |->
                   IF n = 0 THEN [cache |-> cache, uses |-> uses, out |-> <<>>]
                   ELSE ReadPage(kind, column, first, last,
                                 first \div PageBlocks + n - 1, after[n - 1])]
    BY <1>3, <1>4, <1>5, ReadingRecursion
  <1> DEFINE Good(n) ==
        /\ CacheInv(after[n].cache, after[n].uses)
        /\ ~Absent(kind, column) =>
             after[n].out = ReadEntries(kind, column, first,
                                        Reached(first, last, n) - first)
        /\ Absent(kind, column) => after[n].out = <<>>
  <1>7. Good(0)
    <2>1. after[0] = [cache |-> cache, uses |-> uses, out |-> <<>>]
      BY <1>4, <1>6
    <2>2. after[0].cache = cache /\ after[0].uses = uses /\ after[0].out = <<>>
      BY <2>1
    <2>3. CacheInv(cache, uses)
      BY DEF MetaInv
    <2>4. ASSUME ~Absent(kind, column)
          PROVE  ReadEntries(kind, column, first, Reached(first, last, 0) - first)
                   = <<>>
      <3>1. Reached(first, last, 0) - first = 0
        BY DEF Reached
      <3>2. PICK e : e = ReadEntries(kind, column, first, 0)
        OBVIOUS
      <3>3. PICK w : w = Width(kind)
        OBVIOUS
      <3>4. e \in Seq(Seq(Int)) /\ Len(e) = 0 * w
        BY <2>4, <3>2, <3>3, EntriesAre
      <3>5. 0 * w = 0
        BY <3>3, WidthType
      <3>6. e = <<>>
        BY <3>4, <3>5
      <3>7. QED BY <3>1, <3>2, <3>6
    <2>5. QED BY <2>2, <2>3, <2>4
  <1>8. ASSUME NEW n \in 1 .. pages, Good(n - 1) PROVE Good(n)
    <2>1. PICK r, s, page : /\ r = after[n - 1] /\ s = after[n]
                            /\ page = first \div PageBlocks + n - 1
      OBVIOUS
    <2>2. s = ReadPage(kind, column, first, last, page, r)
      BY <1>4, <1>6, <2>1
    <2>3. /\ CacheInv(r.cache, r.uses)
          /\ ~Absent(kind, column) =>
               r.out = ReadEntries(kind, column, first,
                                   Reached(first, last, n - 1) - first)
          /\ Absent(kind, column) => r.out = <<>>
      BY <1>8, <2>1
    <2>4. n \in 1 .. PagesRead(kind, column, first, last)
      BY <1>3
    <2>5. /\ CacheInv(s.cache, s.uses)
          /\ ~Absent(kind, column) =>
               s.out = ReadEntries(kind, column, first,
                                   Reached(first, last, n) - first)
          /\ Absent(kind, column) => s.out = <<>>
      BY <1>2, <2>1, <2>2, <2>3, <2>4, PageRead
    <2>6. QED BY <2>1, <2>5
  <1> HIDE DEF Good
  <1>9. Good(pages)
    <2>1. PICK bad : bad = {n \in 0 .. pages : ~Good(n)}
      OBVIOUS
    <2>2. SUFFICES ASSUME bad # {} PROVE FALSE
      BY <1>4, <2>1
    <2>3. PICK n \in bad : \A m \in bad : n <= m
      <3>1. bad \subseteq Nat
        BY <2>1
      <3>2. QED BY <2>2, <3>1, LeastNatural
    <2>4. n \in 1 .. pages /\ n - 1 \in 0 .. pages /\ ~(n <= n - 1)
      BY <1>4, <1>7, <2>1
    <2>5. Good(n - 1)
      BY <2>1, <2>3, <2>4
    <2>6. QED BY <1>8, <2>1, <2>4, <2>5
  <1>10. /\ cache' = after[pages].cache /\ uses' = after[pages].uses
         /\ answer' = after[pages].out
         /\ asked' = [kind |-> kind, first |-> first, count |-> count,
                      column |-> column]
    BY <1>1, <1>3, <1>5 DEF Call
  <1>11. CacheInv(cache, uses)'
    <2>1. CacheInv(after[pages].cache, after[pages].uses)
      BY <1>9 DEF Good
    <2>2. CacheInv(cache', uses')
      BY <1>10, <2>1
    <2>3. QED BY <2>2 DEF CacheInv, Sound, Budgeted, Contents, UsesOk,
                          Consistent, Totals
  <1>12. answer' = ReadEntries(kind, column, first, count)
    <2>1. CASE Absent(kind, column)
      <3>1. ReadEntries(kind, column, first, count) = <<>>
        BY <2>1 DEF Absent, ReadEntries
      <3>2. QED BY <1>9, <1>10, <2>1, <3>1 DEF Good
    <2>2. CASE ~Absent(kind, column)
      <3>1. pages = Pages(first, last)
        BY <1>3, <2>2 DEF PagesRead, Pages
      <3>2. Reached(first, last, pages) - first = count
        <4>1. Reached(first, last, pages) = last
          BY <1>2, <3>1, AllReached
        <4>2. QED BY <1>1, <4>1
      <3>3. QED BY <1>9, <1>10, <2>2, <3>2 DEF Good
    <2>3. QED BY <2>1, <2>2
  <1>13. ReadExact'
    BY <1>10, <1>12 DEF ReadExact, ReadEntries
  <1>14. QED BY <1>11, <1>13 DEF MetaInv

LEMMA MetaInvInit == Init => MetaInv
  <1> SUFFICES ASSUME Init PROVE MetaInv
    OBVIOUS
  <1>1. cache = EmptyCache /\ uses = <<>> /\ asked.kind = "none"
    BY DEF Init
  <1>2. Sound(cache) /\ Budgeted(cache, MaxBytes)
    BY <1>1, EmptySound, MetadataAssumption
  <1>3. Contents(cache)
    BY <1>1 DEF EmptyCache, Contents
  <1>4. UsesOk(uses, cache.lru)
    <2>1. uses \in Seq(PageKeys) /\ Len(uses) = 0
      BY <1>1, EmptySeq
    <2>2. Len(cache.lru) = 0
      BY <1>1 DEF EmptyCache
    <2>3. QED BY <2>1, <2>2, MetadataAssumption DEF UsesOk
  <1>5. QED BY <1>1, <1>2, <1>3, <1>4 DEF MetaInv, CacheInv, ReadExact

LEMMA MetaInvNext == MetaInv /\ [Next]_vars => MetaInv'
  <1> SUFFICES ASSUME MetaInv, [Next]_vars PROVE MetaInv'
    OBVIOUS
  <1>1. CASE UNCHANGED vars
    <2>1. UNCHANGED <<cache, uses, asked, answer>>
      BY <1>1 DEF vars
    <2>2. CacheInv(cache, uses)'
      <3>1. CacheInv(cache', uses')
        BY <2>1 DEF MetaInv
      <3>2. QED BY <3>1 DEF CacheInv, Sound, Budgeted, Contents, UsesOk,
                            Consistent, Totals
    <2>3. ReadExact'
      BY <2>1 DEF MetaInv, ReadExact, ReadEntries
    <2>4. QED BY <2>2, <2>3 DEF MetaInv
  <1>2. ASSUME NEW first \in 0 .. NumBlocks - 1, NEW count \in 1 .. NumBlocks,
               ReadMetadataRange(first, count)
        PROVE  MetaInv'
    <2>1. PICK kind \in Kinds : Call(kind, 0, first, count)
      BY <1>2 DEF ReadMetadataRange, Kinds
    <2>2. first \in Nat /\ count \in Nat \ {0}
      BY MetadataAssumption
    <2>3. QED BY <2>1, <2>2, CallReads
  <1>3. ASSUME NEW first \in 0 .. NumBlocks - 1, NEW count \in 1 .. NumBlocks,
               NEW column \in 0 .. ColumnsCount - 1,
               ReadNumericStats(column, first, count)
        PROVE  MetaInv'
    <2>1. "stats" \in Kinds /\ Call("stats", column, first, count)
      BY <1>3 DEF ReadNumericStats, Kinds
    <2>2. first \in Nat /\ count \in Nat \ {0} /\ column \in Nat
      BY MetadataAssumption
    <2>3. QED BY <2>1, <2>2, CallReads
  <1>4. QED BY <1>1, <1>2, <1>3 DEF Next

(* The cache, the list of uses and the answers as described above, for     *)
(* every number of blocks, page size, budget and set of statistics.        *)
THEOREM MetaInvariant == Spec => []MetaInv
  BY MetaInvInit, MetaInvNext, PTL DEF Spec

(* read_row_metadata_range, read_column_metadata_range and                 *)
(* read_numeric_stats_range return exactly the entries asked for.          *)
THEOREM ReadsExact == Spec => []ReadExact
  <1>1. MetaInv => ReadExact
    BY DEF MetaInv
  <1>2. QED BY <1>1, MetaInvariant, PTL

(* cached_bytes_, lru_ and the maps agree, and evict_if_needed keeps the   *)
(* budget.                                                                 *)
THEOREM CacheAccounted == Spec => []CacheAccounts
  <1>1. MetaInv => CacheAccounts
    BY AccountsIs DEF MetaInv, CacheInv, CacheAccounts
  <1>2. QED BY <1>1, MetaInvariant, PTL

(* touch_page and the eviction from the back keep the pages used last.     *)
THEOREM RecentKept == Spec => []KeepsRecent
  <1>1. MetaInv => KeepsRecent
    <2> SUFFICES ASSUME MetaInv PROVE KeepsRecent
      OBVIOUS
    <2>1. Sound(cache) /\ UsesOk(uses, cache.lru)
      BY DEF MetaInv, CacheInv
    <2>2. Len(cache.lru) \in Nat /\ DOMAIN cache.lru = 1 .. Len(cache.lru)
      BY <2>1, SoundIs
    <2>3. ASSUME NEW i \in DOMAIN cache.lru, i <= HistoryLength
          PROVE  i \in DOMAIN uses /\ uses[i] = cache.lru[i]
      <3>1. i \in 1 .. Len(cache.lru)
        BY <2>2
      <3>2. i <= Len(uses) /\ uses[i] = cache.lru[i]
        BY <2>1, <2>3, <3>1 DEF UsesOk
      <3>3. DOMAIN uses = 1 .. Len(uses) /\ Len(uses) \in Nat
        BY <2>1 DEF UsesOk
      <3>4. QED BY <3>1, <3>2, <3>3
    <2>4. QED BY <2>3 DEF KeepsRecent
  <1>2. QED BY <1>1, MetaInvariant, PTL

=============================================================================
