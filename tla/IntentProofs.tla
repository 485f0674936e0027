---------------------------- MODULE IntentProofs ----------------------------
(***************************************************************************)
(* What kvio makes of an execution's dimensions.  The sizes of KV objects, *)
(* for any model; the offload driver, for any command line: its markers,   *)
(* its counts and the intent that replays it; and the documents, for any   *)
(* dimensions and limits: how they are lowered and converted.              *)
(***************************************************************************)
EXTENDS OffloadDriver, Geometry, Documents,
        FiniteSetTheorems, SequenceTheorems, WellFoundedInduction, TLAPS

----------------------------------------------------------------------------
(* Sizes: kv_geometry.py, kv_representation.py and content_profile.py.     *)

\* Division with remainder.
LEMMA Division ==
    ASSUME NEW n \in Nat, NEW d \in Nat \ {0}
    PROVE  /\ n \div d \in Nat /\ n % d \in 0 .. d - 1 /\ n % d \in Nat
           /\ n = d * (n \div d) + (n % d) /\ d * (n \div d) \in Nat
<1>1. n \div d \in Nat /\ n % d \in 0 .. d - 1 /\ n = d * (n \div d) + (n % d) OBVIOUS
<1>2. PICK quo \in Nat : quo = n \div d BY <1>1
<1>3. d * quo \in Nat OBVIOUS
<1> QED BY <1>1, <1>2, <1>3

\* The quotient is the only number that fits.
LEMMA Quotient ==
    ASSUME NEW quo \in Nat, NEW d \in Nat \ {0}, NEW r \in 0 .. d - 1
    PROVE  (quo * d + r) \div d = quo /\ (quo * d + r) % d = r
<1>1. PICK n \in Nat : n = quo * d + r OBVIOUS
<1>2. PICK a \in Nat, b \in 0 .. d - 1 : a = n \div d /\ b = n % d /\ n = d * a + b BY Division
<1>3. PICK qd \in Nat : qd = quo * d
  <2>1. quo * d \in Nat OBVIOUS
  <2> QED BY <2>1
<1>4. PICK ad \in Nat : ad = a * d
  <2>1. a * d \in Nat OBVIOUS
  <2> QED BY <2>1
<1>5. n = qd + r BY <1>1, <1>3
<1>6. n = ad + b
  <2>1. d * a = a * d OBVIOUS
  <2> QED BY <1>2, <1>4, <2>1
<1>7. a = quo
  <2>1. CASE a < quo
    <3>1. PICK k \in Nat : quo = a + 1 + k
      <4>1. quo - a - 1 \in Nat /\ quo = a + 1 + (quo - a - 1) BY <2>1
      <4> QED BY <4>1
    <3>2. quo * d = a * d + d + k * d /\ k * d \in Nat BY <3>1
    <3>3. PICK kd \in Nat : kd = k * d BY <3>2
    <3>4. qd = ad + d + kd BY <1>3, <1>4, <3>2, <3>3
    <3> QED BY <1>5, <1>6, <3>4
  <2>2. CASE a > quo
    <3>1. PICK k \in Nat : a = quo + 1 + k
      <4>1. a - quo - 1 \in Nat /\ a = quo + 1 + (a - quo - 1) BY <2>2
      <4> QED BY <4>1
    <3>2. a * d = quo * d + d + k * d /\ k * d \in Nat BY <3>1
    <3>3. PICK kd \in Nat : kd = k * d BY <3>2
    <3>4. ad = qd + d + kd BY <1>3, <1>4, <3>2, <3>3
    <3> QED BY <1>5, <1>6, <3>4
  <2> QED BY <2>1, <2>2
<1>8. ad = qd BY <1>3, <1>4, <1>7
<1>9. b = r BY <1>5, <1>6, <1>8
<1> QED BY <1>1, <1>2, <1>7, <1>9

\* A division that leaves nothing.
LEMMA Exactly ==
    ASSUME NEW quo \in Nat, NEW d \in Nat \ {0}
    PROVE  (quo * d) \div d = quo /\ (quo * d) % d = 0 /\ RoundDiv(quo * d, d) = quo
<1>1. 0 \in 0 .. d - 1 /\ quo * d + 0 = quo * d OBVIOUS
<1>2. (quo * d) \div d = quo /\ (quo * d) % d = 0
  <2>1. (quo * d + 0) \div d = quo /\ (quo * d + 0) % d = 0 BY <1>1, Quotient
  <2> QED BY <1>1, <2>1
<1>3. 2 * 0 < d OBVIOUS
<1> QED BY <1>2, <1>3 DEF RoundDiv

LEMMA AlignedIs ==
    ASSUME NEW n \in Nat, NEW align \in Nat \ {0}
    PROVE  Aligned(n, align) \in Nat /\ Aligned(n, align) >= n /\ Aligned(n, align) % align = 0
<1>1. PICK m \in Nat : m = n + align - 1 OBVIOUS
<1>2. PICK quo \in Nat, r \in 0 .. align - 1 : quo = m \div align /\ m = align * quo + r BY Division
<1>3. align * quo = quo * align /\ quo * align \in Nat OBVIOUS
<1>4. Aligned(n, align) = quo * align BY <1>1, <1>2 DEF Aligned
<1>5. quo * align >= n BY <1>1, <1>2, <1>3
<1>6. (quo * align) % align = 0 BY Exactly
<1> QED BY <1>3, <1>4, <1>5, <1>6

\* The product of divisible factors.
LEMMA Divides ==
    ASSUME NEW n \in Nat, NEW d \in Nat \ {0}, n % d = 0
    PROVE  \E quo \in Nat : n = quo * d
<1>1. n = d * (n \div d) + (n % d) /\ n \div d \in Nat BY Division
<1>2. d * (n \div d) = (n \div d) * d BY <1>1
<1> QED BY <1>1, <1>2

\* Multiplication, as the sizes use it.
LEMMA SharedProduct ==
    ASSUME NEW s \in Nat, NEW share \in Nat, NEW t \in Nat, NEW kv \in Nat, NEW h \in Nat, NEW heads \in Nat
    PROVE  /\ 2 * (s * share) * t * kv * (h * heads) = (2 * ((s * t * h) * kv)) * (share * heads)
           /\ 2 * s * t * kv * (h * heads) = (2 * ((s * t * h) * kv)) * heads
           /\ 2 * s * t * kv * h = (2 * ((s * t * h) * kv)) * 1
           /\ s * t * h \in Nat /\ share * heads \in Nat /\ (share # 0 /\ heads # 0 => share * heads # 0)
<1>1. s * t \in Nat /\ s * t * h \in Nat /\ share * heads \in Nat OBVIOUS
<1>2. 2 * s * t * kv * h = (2 * ((s * t * h) * kv)) * 1 OBVIOUS
<1>3. 2 * s * t * kv * (h * heads) = (2 * ((s * t * h) * kv)) * heads OBVIOUS
<1>4. 2 * (s * share) * t * kv * (h * heads) = (2 * ((s * t * h) * kv)) * (share * heads) OBVIOUS
<1>5. share # 0 /\ heads # 0 => share * heads # 0 OBVIOUS
<1> QED BY <1>1, <1>2, <1>3, <1>4, <1>5

LEMMA DtypeSize ==
    ASSUME NEW dtype \in DOMAIN DTYPE_BYTES
    PROVE  DTYPE_BYTES[dtype] \in Nat \ {0}
BY DEF DTYPE_BYTES

\* A cache of whole heads: u elements of each head in K, and as many in V.
WholeCache(detail, width, u) ==
    /\ detail.kv_heads \in Nat /\ u \in Nat
    /\ detail.total_elements = 2 * (u * detail.kv_heads)
    /\ detail.total_bytes = (2 * (u * detail.kv_heads)) * width
LEMMA CacheIsWhole ==
    ASSUME NEW z, Sizeable(z), NEW detail, detail = kv_cache_bytes(z.named, z.config, z.p.chunk_tokens, z.dtype),
           detail.family # "mla"
    PROVE  \E u \in Nat : WholeCache(detail, DTYPE_BYTES[z.dtype], u)
<1>1. PICK fam : fam = resolve_family(z.named, z.config) OBVIOUS
<1>0. PICK c : c = z.config OBVIOUS
<1>2. PICK t \in Nat, width \in Nat \ {0} : t = z.p.chunk_tokens /\ width = DTYPE_BYTES[z.dtype] BY DtypeSize DEF Sizeable
<1>3. PICK e : e = Elements(fam, c, t) OBVIOUS
<1>4. detail = [family |-> fam, kv_heads |-> IF fam = "mla" THEN 0 ELSE c.num_key_value_heads,
                total_elements |-> RoundDiv(e[1], e[2]), total_bytes |-> RoundDiv(e[1] * width, e[2])]
  BY <1>0, <1>1, <1>2, <1>3 DEF kv_cache_bytes
<1>5. fam # "mla" BY <1>4
<1>6. detail.kv_heads = c.num_key_value_heads /\ detail.total_elements = RoundDiv(e[1], e[2])
      /\ detail.total_bytes = RoundDiv(e[1] * width, e[2])
  BY <1>4, <1>5
<1>7. c \in [num_hidden_layers : Nat, hidden_size : Nat, num_attention_heads : Nat, num_key_value_heads : Nat,
             head_dim : Nat, kv_lora_rank : Nat, qk_rope_head_dim : Nat, cla_share_factor : Nat]
      /\ WholeHeads(fam, c)
  BY <1>0, <1>1 DEF Sizeable
<1>8. PICK nl \in Nat, kv \in Nat, hid \in Nat, heads \in Nat, dim \in Nat, share \in Nat :
        /\ nl = c.num_hidden_layers /\ kv = c.num_key_value_heads /\ hid = c.hidden_size
        /\ heads = c.num_attention_heads /\ dim = c.head_dim /\ share = c.cla_share_factor
  BY <1>7
<1>9. \E u \in Nat, d \in Nat \ {0} : e[1] = (2 * (u * kv)) * d /\ e[2] = d
  <2>1. CASE fam = "gqa_head_dim"
    <3>1. e = <<2 * nl * t * kv * dim, 1>> BY <1>3, <1>8, <2>1 DEF Elements
    <3>2. nl * t * dim \in Nat /\ 2 * nl * t * kv * dim = (2 * ((nl * t * dim) * kv)) * 1 BY SharedProduct
    <3> QED BY <3>1, <3>2
  <2>2. CASE fam = "cla"
    <3>1. heads \in Nat \ {0} /\ share \in Nat \ {0} /\ hid % heads = 0 /\ nl % share = 0 BY <1>7, <1>8, <2>2 DEF WholeHeads
    <3>2. PICK h \in Nat : hid = h * heads BY <3>1, Divides
    <3>3. PICK s \in Nat : nl = s * share BY <3>1, Divides
    <3>4. e = <<2 * nl * t * kv * hid, share * heads>> BY <1>3, <1>8, <2>2 DEF Elements
    <3>5. /\ 2 * (s * share) * t * kv * (h * heads) = (2 * ((s * t * h) * kv)) * (share * heads)
          /\ s * t * h \in Nat /\ share * heads \in Nat \ {0}
      BY <3>1, SharedProduct
    <3> QED BY <3>2, <3>3, <3>4, <3>5
  <2>3. CASE fam \notin {"mla", "cla", "gqa_head_dim"}
    <3>1. heads \in Nat \ {0} /\ hid % heads = 0 BY <1>7, <1>8, <2>3 DEF WholeHeads
    <3>2. PICK h \in Nat : hid = h * heads BY <3>1, Divides
    <3>3. e = <<2 * nl * t * kv * hid, heads>> BY <1>3, <1>8, <2>3 DEF Elements
    <3>4. 2 * nl * t * kv * (h * heads) = (2 * ((nl * t * h) * kv)) * heads /\ nl * t * h \in Nat BY SharedProduct
    <3> QED BY <3>1, <3>2, <3>3, <3>4
  <2> QED BY <1>5, <2>1, <2>2, <2>3
<1>10. PICK u \in Nat, d \in Nat \ {0} : e[1] = (2 * (u * kv)) * d /\ e[2] = d BY <1>9
<1>11. PICK quo \in Nat : quo = 2 * (u * kv)
  <2>1. u * kv \in Nat OBVIOUS
  <2>2. 2 * (u * kv) \in Nat BY <2>1
  <2> QED BY <2>2
<1>12. RoundDiv(e[1], e[2]) = quo BY <1>10, <1>11, Exactly
<1>13. RoundDiv(e[1] * width, e[2]) = quo * width
  <2>1. quo * width \in Nat /\ (quo * d) * width = (quo * width) * d OBVIOUS
  <2>2. RoundDiv((quo * width) * d, d) = quo * width BY <2>1, Exactly
  <2> QED BY <1>10, <1>11, <2>1, <2>2
<1>14. WholeCache(detail, width, u) BY <1>6, <1>8, <1>11, <1>12, <1>13 DEF WholeCache
<1> QED BY <1>2, <1>14

\* What tensor parallelism makes of a cache of whole heads: b bytes of a plane
\* on each of r ranks, g of the heads, which are dealt out parts times.
Dealt(detail, tp, width, u, g, parts, b, r) ==
    /\ g \in Nat /\ parts \in Nat \ {0} /\ b \in Nat /\ r \in Nat \ {0} /\ u \in Nat /\ width \in Nat
    /\ detail.kv_heads = g * parts /\ b = u * g * width /\ parts <= r /\ (detail.kv_heads >= tp => parts = r)
    /\ r = (IF tp <= 1 THEN 1 ELSE tp)
    /\ shard_kv_bytes((detail.total_elements \div 2) * width, detail, tp) = [bytes |-> b, ranks |-> r]
    /\ shard_kv_bytes(detail.total_bytes, detail, tp) = [bytes |-> 2 * b, ranks |-> r]
    /\ detail.total_bytes = 2 * (b * parts)
LEMMA ShardsAreDealt ==
    ASSUME NEW detail, NEW tp \in Nat, NEW width \in Nat \ {0}, NEW u \in Nat, WholeCache(detail, width, u),
           detail.family # "mla", ~Unshardable(detail, tp)
    PROVE  \E g, parts, b, r : Dealt(detail, tp, width, u, g, parts, b, r)
<1>1. PICK kv \in Nat : kv = detail.kv_heads BY DEF WholeCache
<1>2. detail.total_elements = 2 * (u * kv) /\ detail.total_bytes = (2 * (u * kv)) * width BY <1>1 DEF WholeCache
<1>3. PICK r \in Nat \ {0} : r = IF tp <= 1 THEN 1 ELSE tp OBVIOUS
<1>4. PICK parts \in Nat \ {0} : parts = IF tp <= 1 THEN 1 ELSE IF kv >= tp THEN tp ELSE kv
  BY <1>1 DEF Unshardable
<1>5. parts <= r /\ (kv >= tp => parts = r) BY <1>3, <1>4
<1>6. \E g \in Nat : kv = g * parts
  <2>1. CASE tp <= 1 BY <1>4, <2>1
  <2>2. CASE tp > 1 /\ kv >= tp
    <3>1. kv % tp = 0 BY <1>1, <2>2 DEF Unshardable
    <3>2. parts = tp /\ tp \in Nat \ {0} BY <1>4, <2>2
    <3>3. \E g \in Nat : kv = g * tp BY <3>1, <3>2, Divides
    <3> QED BY <3>2, <3>3
  <2>3. CASE tp > 1 /\ kv < tp
    <3>1. parts = kv /\ kv = 1 * kv BY <1>4, <2>3
    <3> QED BY <3>1
  <2> QED BY <2>1, <2>2, <2>3
<1>7. PICK g \in Nat : kv = g * parts BY <1>6
<1>8. PICK b \in Nat : b = u * g * width
  <2>1. u * g \in Nat OBVIOUS
  <2>2. u * g * width \in Nat BY <2>1
  <2> QED BY <2>2
<1>9. (2 * (u * kv)) * width = (2 * b) * parts /\ 2 * b \in Nat /\ (2 * b) * parts = 2 * (b * parts)
  <2>1. (2 * (u * (g * parts))) * width = (2 * (u * g * width)) * parts OBVIOUS
  <2>2. 2 * b \in Nat /\ (2 * b) * parts = 2 * (b * parts) OBVIOUS
  <2> QED BY <1>7, <1>8, <2>1, <2>2
<1>10. detail.total_elements \div 2 = u * kv
  <2>1. u * kv \in Nat /\ 2 * (u * kv) = (u * kv) * 2 OBVIOUS
  <2>2. ((u * kv) * 2) \div 2 = u * kv BY <2>1, Exactly
  <2> QED BY <1>2, <2>1, <2>2
<1>11. (u * kv) * width = b * parts
  <2>1. (u * (g * parts)) * width = (u * g * width) * parts OBVIOUS
  <2> QED BY <1>7, <1>8, <2>1
<1>12. ASSUME NEW x \in Nat, NEW n \in Nat, n = x * parts
       PROVE  shard_kv_bytes(n, detail, tp) = [bytes |-> x, ranks |-> r]
  <2>1. n \div parts = x BY <1>12, Exactly
  <2>2. CASE tp <= 1
    <3>1. n = x BY <1>4, <1>12, <2>2
    <3> QED BY <1>3, <2>2, <3>1 DEF shard_kv_bytes
  <2>3. CASE tp > 1
    <3>1. shard_kv_bytes(n, detail, tp) = [bytes |-> n \div parts, ranks |-> r] BY <1>1, <1>3, <1>4, <2>3 DEF shard_kv_bytes
    <3> QED BY <2>1, <3>1
  <2> QED BY <2>2, <2>3
<1>13. shard_kv_bytes((detail.total_elements \div 2) * width, detail, tp) = [bytes |-> b, ranks |-> r]
  <2>1. b * parts \in Nat OBVIOUS
  <2> QED BY <1>10, <1>11, <1>12, <2>1
<1>14. shard_kv_bytes(detail.total_bytes, detail, tp) = [bytes |-> 2 * b, ranks |-> r]
  <2>1. (2 * b) * parts \in Nat BY <1>9
  <2> QED BY <1>2, <1>9, <1>12, <2>1
<1>15. Dealt(detail, tp, width, u, g, parts, b, r) BY <1>1, <1>2, <1>3, <1>5, <1>7, <1>8, <1>9, <1>13, <1>14 DEF Dealt
<1> QED BY <1>15

\* The larger of one and a number.
LEMMA MaxOfTwo ==
    ASSUME NEW n \in Nat
    PROVE  Max({1, n}) \in Nat /\ Max({1, n}) >= 1 /\ Max({1, n}) >= n
<1>1. \E m \in {1, n} : \A k \in {1, n} : m >= k
  <2>1. CASE n >= 1 BY <2>1
  <2>2. CASE n < 1 BY <2>2
  <2> QED BY <2>1, <2>2
<1> QED BY <1>1 DEF Max

\* The scales of a rank, times the ranks, cover every page and head.
LEMMA ScalesCover ==
    ASSUME NEW detail, NEW tp \in Nat, NEW p, NEW width, NEW u, NEW g, NEW parts, NEW b, NEW r,
           Dealt(detail, tp, width, u, g, parts, b, r), NEW name \in DOMAIN REPRESENTATIONS, REPRESENTATIONS[name].codec,
           p.scope \in {"per_tensor", "per_page_head"}, p.chunk_tokens \in Nat, p.page_size \in Int,
           ~Underivable(name, detail, tp, p)
    PROVE  /\ ScaleExtent(detail, tp, r, p) \in Nat
           /\ p.scope = "per_page_head" =>
                ScaleExtent(detail, tp, r, p) * r >= (p.chunk_tokens \div p.page_size) * detail.kv_heads
<1>1. CASE p.scope = "per_tensor" BY <1>1 DEF ScaleExtent
<1>2. CASE p.scope = "per_page_head"
  <2>1. p.page_size \in Nat \ {0} BY <1>2 DEF Underivable
  <2>2. PICK pages \in Nat : pages = p.chunk_tokens \div p.page_size BY <2>1, Division
  <2>3. PICK kv \in Nat : kv = detail.kv_heads /\ kv = g * parts
    <3>1. g * parts \in Nat BY DEF Dealt
    <3> QED BY <3>1 DEF Dealt
  <2>4. g \in Nat /\ parts \in Nat \ {0} /\ r \in Nat \ {0} /\ (kv >= tp => parts = r) /\ r = (IF tp <= 1 THEN 1 ELSE tp)
    BY <2>3 DEF Dealt
  <2>5. PICK m \in Nat : m = (IF tp > 1 THEN Max({1, kv \div r}) ELSE kv) /\ m * r >= kv
    <3>1. CASE tp <= 1 BY <2>4, <3>1
    <3>2. CASE tp > 1 /\ kv >= tp
      <4>1. kv \div r = g BY <2>3, <2>4, <3>2, Exactly
      <4>2. Max({1, g}) \in Nat /\ Max({1, g}) >= g BY <2>4, MaxOfTwo
      <4>3. PICK m \in Nat : m = Max({1, g}) BY <4>2
      <4>4. m * r >= g * r BY <2>4, <4>2, <4>3
      <4> QED BY <2>3, <2>4, <3>2, <4>1, <4>3, <4>4
    <3>3. CASE tp > 1 /\ kv < tp
      <4>1. kv \div r \in Nat BY <2>4, Division
      <4>2. PICK m \in Nat : m = Max({1, kv \div r}) /\ m >= 1 BY <4>1, MaxOfTwo
      <4>3. m * r >= r BY <2>4, <4>2
      <4> QED BY <2>4, <3>3, <4>2, <4>3
    <3>4. tp <= 1 \/ (tp > 1 /\ kv >= tp) \/ (tp > 1 /\ kv < tp) OBVIOUS
    <3> QED BY <3>1, <3>2, <3>3, <3>4
  <2>6. ScaleExtent(detail, tp, r, p) = pages * m BY <1>2, <2>2, <2>3, <2>5 DEF ScaleExtent
  <2>7. pages * m \in Nat /\ (pages * m) * r >= pages * kv
    <3>1. (pages * m) * r = pages * (m * r) /\ pages * m \in Nat /\ m * r \in Nat BY <2>4
    <3>2. pages * (m * r) >= pages * kv BY <2>5, <3>1
    <3> QED BY <3>1, <3>2
  <2> QED BY <2>2, <2>3, <2>6, <2>7
<1> QED BY <1>1, <1>2

\* One representation of a chunk: the parts of an object add up to it, padded
\* it ends on a block boundary, and its extent holds it.
ObjectAddsUp(d, name, b, r, extent, p) ==
    /\ d.plane = b /\ d.ranks = r /\ d.payload_bytes \in Nat
    /\ d.components.scales = (IF REPRESENTATIONS[name].codec THEN 4 * extent ELSE 0)
    /\ d.components.k + d.components.v + d.components.scales + d.components.codec_header + d.components.padding = d.payload_bytes
    /\ p.pad => d.payload_bytes % p.block_align = 0
    /\ d.physical >= p.metadata + d.payload_bytes
    /\ name = "bf16_kv" => d.components.k = b
    /\ name = "v8_only" => d.host = b
LEMMA ObjectSizes ==
    ASSUME NEW detail, NEW dtype \in DOMAIN DTYPE_BYTES, NEW tp, NEW p, NEW name \in DOMAIN REPRESENTATIONS, NEW b \in Nat, NEW r,
           shard_kv_bytes((detail.total_elements \div 2) * DTYPE_BYTES[dtype], detail, tp) = [bytes |-> b, ranks |-> r],
           REPRESENTATIONS[name].codec => ScaleExtent(detail, tp, r, p) \in Nat,
           p.strings \in Nat, p.metadata \in Nat, p.block_align \in Nat \ {0}, p.pad \in BOOLEAN,
           NEW d, d = derive_representation(name, detail, dtype, tp, p)
    PROVE  ObjectAddsUp(d, name, b, r, ScaleExtent(detail, tp, r, p), p)
<1>1. PICK spec : spec = REPRESENTATIONS[name] OBVIOUS
<1>2. PICK width \in Nat \ {0} : width = DTYPE_BYTES[dtype] BY DtypeSize
<1>3. PICK scales \in Nat : scales = (IF spec.codec THEN 4 * ScaleExtent(detail, tp, r, p) ELSE 0) BY <1>1
<1>4. PICK header \in Nat :
        header = (IF spec.codec THEN codec_header_bytes(IF p.scope = "per_tensor" THEN 0 ELSE 2, p.strings) ELSE 0)
  BY DEF codec_header_bytes
<1>5. PICK k \in Nat : k = (IF "k" \in spec.stored THEN b ELSE 0) OBVIOUS
<1>6. PICK v \in Nat : v = (IF spec.codec THEN b \div width ELSE b) BY Division
<1>7. PICK base \in Nat : base = k + v + scales + header OBVIOUS
<1>8. PICK align \in Nat \ {0}, meta \in Nat : align = p.block_align /\ meta = p.metadata OBVIOUS
<1>9. PICK above \in Nat : above = Aligned(base, align) /\ above >= base /\ above % align = 0 BY AlignedIs
<1>10. PICK padding \in Nat : padding = (IF p.pad THEN above - base ELSE 0) BY <1>9
<1>11. PICK payload \in Nat : payload = base + padding OBVIOUS
<1>12. p.pad => payload = above BY <1>9, <1>10, <1>11
<1>13. PICK whole \in Nat : whole = Aligned(meta + payload, align) /\ whole >= meta + payload
  <2>1. meta + payload \in Nat OBVIOUS
  <2> QED BY <2>1, AlignedIs
<1>14. PICK plane : plane = [bytes |-> b, ranks |-> r] OBVIOUS
<1>15. plane = shard_kv_bytes((detail.total_elements \div 2) * width, detail, tp) BY <1>2, <1>14
<1>16. /\ d.components = [k |-> k, v |-> v, scales |-> scales, codec_header |-> header, padding |-> padding]
       /\ d.payload_bytes = payload /\ d.ranks = r /\ d.plane = b /\ d.physical = whole
       /\ d.host = (IF spec.host_resident = {} THEN 0 ELSE b)
  <2>1. plane.bytes = b /\ plane.ranks = r BY <1>14
  <2>2. d = [components |-> [k |-> k, v |-> v, scales |-> scales, codec_header |-> header, padding |-> padding],
             payload_bytes |-> payload, ranks |-> r, plane |-> b,
             reservation |-> IF spec.codec THEN payload - header + SERDE_HEADER_ALLOWANCE ELSE 0,
             physical |-> whole, host |-> IF spec.host_resident = {} THEN 0 ELSE b]
    BY <1>1, <1>2, <1>3, <1>4, <1>5, <1>6, <1>7, <1>8, <1>9, <1>10, <1>11, <1>13, <1>15, <2>1 DEF derive_representation
  <2> QED BY <2>2
<1>17. name = "bf16_kv" => k = b BY <1>1, <1>5 DEF REPRESENTATIONS
<1>18. name = "v8_only" => d.host = b BY <1>1, <1>16 DEF REPRESENTATIONS
<1>19. /\ d.components.k = k /\ d.components.v = v /\ d.components.scales = scales
       /\ d.components.codec_header = header /\ d.components.padding = padding
  BY <1>16
<1>20. k + v + scales + header + padding = payload BY <1>7, <1>11
<1>21. p.pad => payload % align = 0 BY <1>9, <1>12
<1> QED BY <1>1, <1>3, <1>8, <1>13, <1>16, <1>17, <1>18, <1>19, <1>20, <1>21 DEF ObjectAddsUp

\* What holds of each representation that can be derived.
DerivedAt(z, detail, width, u, g, parts, b, r) ==
    /\ Dealt(detail, z.tp, width, u, g, parts, b, r)
    /\ \A name \in DOMAIN REPRESENTATIONS : ~Underivable(name, detail, z.tp, z.p) =>
         /\ ObjectAddsUp(derive_representation(name, detail, z.dtype, z.tp, z.p), name, b, r, ScaleExtent(detail, z.tp, r, z.p), z.p)
         /\ REPRESENTATIONS[name].codec => ScaleExtent(detail, z.tp, r, z.p) \in Nat
         /\ REPRESENTATIONS[name].codec /\ z.p.scope = "per_page_head" =>
              ScaleExtent(detail, z.tp, r, z.p) * r >= (z.p.chunk_tokens \div z.p.page_size) * detail.kv_heads
              /\ (z.p.chunk_tokens \div z.p.page_size) \in Nat
LEMMA RepresentationsDerived ==
    ASSUME NEW z, Sizeable(z), NEW detail, detail = kv_cache_bytes(z.named, z.config, z.p.chunk_tokens, z.dtype),
           detail.family # "mla", ~Unshardable(detail, z.tp)
    PROVE  \E u, g, parts, b, r : DerivedAt(z, detail, DTYPE_BYTES[z.dtype], u, g, parts, b, r)
<1>1. /\ z.dtype \in DOMAIN DTYPE_BYTES /\ z.tp \in Nat /\ z.p.chunk_tokens \in Nat /\ z.p.page_size \in Int
      /\ z.p.scope \in {"per_tensor", "per_page_head"} /\ z.p.strings \in Nat /\ z.p.metadata \in Nat
      /\ z.p.block_align \in Nat \ {0} /\ z.p.pad \in BOOLEAN
  BY DEF Sizeable
<1>2. PICK width \in Nat \ {0} : width = DTYPE_BYTES[z.dtype] BY <1>1, DtypeSize
<1>3. PICK u \in Nat : WholeCache(detail, width, u) BY <1>2, CacheIsWhole
<1>4. PICK g, parts, b, r : Dealt(detail, z.tp, width, u, g, parts, b, r) BY <1>1, <1>3, ShardsAreDealt
<1>5. b \in Nat /\ shard_kv_bytes((detail.total_elements \div 2) * DTYPE_BYTES[z.dtype], detail, z.tp) = [bytes |-> b, ranks |-> r]
  BY <1>2, <1>4 DEF Dealt
<1>6. ASSUME NEW name \in DOMAIN REPRESENTATIONS, ~Underivable(name, detail, z.tp, z.p)
      PROVE  /\ ObjectAddsUp(derive_representation(name, detail, z.dtype, z.tp, z.p), name, b, r, ScaleExtent(detail, z.tp, r, z.p), z.p)
             /\ REPRESENTATIONS[name].codec => ScaleExtent(detail, z.tp, r, z.p) \in Nat
             /\ REPRESENTATIONS[name].codec /\ z.p.scope = "per_page_head" =>
                  ScaleExtent(detail, z.tp, r, z.p) * r >= (z.p.chunk_tokens \div z.p.page_size) * detail.kv_heads
                  /\ (z.p.chunk_tokens \div z.p.page_size) \in Nat
  <2>1. REPRESENTATIONS[name].codec => ScaleExtent(detail, z.tp, r, z.p) \in Nat BY <1>1, <1>4, <1>6, ScalesCover
  <2>2. REPRESENTATIONS[name].codec /\ z.p.scope = "per_page_head" =>
          ScaleExtent(detail, z.tp, r, z.p) * r >= (z.p.chunk_tokens \div z.p.page_size) * detail.kv_heads
    BY <1>1, <1>4, <1>6, ScalesCover
  <2>3. REPRESENTATIONS[name].codec /\ z.p.scope = "per_page_head" => (z.p.chunk_tokens \div z.p.page_size) \in Nat
    <3> SUFFICES ASSUME REPRESENTATIONS[name].codec, z.p.scope = "per_page_head" PROVE (z.p.chunk_tokens \div z.p.page_size) \in Nat
      OBVIOUS
    <3>1. z.p.page_size \in Nat \ {0} BY <1>1, <1>6 DEF Underivable
    <3> QED BY <1>1, <3>1, Division
  <2>4. PICK d : d = derive_representation(name, detail, z.dtype, z.tp, z.p) OBVIOUS
  <2>5. ObjectAddsUp(d, name, b, r, ScaleExtent(detail, z.tp, r, z.p), z.p) BY <1>1, <1>5, <2>1, <2>4, ObjectSizes
  <2> QED BY <2>1, <2>2, <2>3, <2>4, <2>5
<1>7. DerivedAt(z, detail, width, u, g, parts, b, r) BY <1>4, <1>6 DEF DerivedAt
<1> QED BY <1>2, <1>7

\* What cannot be derived: a latent, and a split that is refused.
LEMMA DerivableIsDealt ==
    ASSUME NEW name, NEW detail, NEW tp, NEW p, ~Underivable(name, detail, tp, p)
    PROVE  detail.family # "mla" /\ ~Unshardable(detail, tp)
BY DEF Underivable

LEMMA ShardsCover ==
    ASSUME \A z \in sized : Sizeable(z)
    PROVE  ShardsCoverChunk
<1> SUFFICES ASSUME NEW z \in sized, NEW detail, detail = kv_cache_bytes(z.named, z.config, z.p.chunk_tokens, z.dtype),
                    NEW name \in DOMAIN REPRESENTATIONS, ~Underivable(name, detail, z.tp, z.p),
                    NEW d, d = derive_representation(name, detail, z.dtype, z.tp, z.p),
                    NEW whole, whole = shard_kv_bytes(detail.total_bytes, detail, z.tp)
             PROVE  /\ 2 * d.plane = whole.bytes /\ d.ranks = whole.ranks
                    /\ d.ranks * d.plane * 2 >= detail.total_bytes
                    /\ 2 * d.plane * detail.kv_heads >= detail.total_bytes \/ detail.kv_heads = 0
                    /\ detail.kv_heads >= z.tp => d.ranks * d.plane * 2 = detail.total_bytes
                    /\ REPRESENTATIONS[name].codec /\ z.p.scope = "per_page_head" =>
                         d.components.scales * d.ranks >= 4 * (z.p.chunk_tokens \div z.p.page_size) * detail.kv_heads
                    /\ z.p.pad => d.payload_bytes % z.p.block_align = 0
                    /\ d.physical >= z.p.metadata + d.payload_bytes
  BY DEF ShardsCoverChunk
<1>1. detail.family # "mla" /\ ~Unshardable(detail, z.tp) BY DerivableIsDealt
<1>2. PICK width, u, g, parts, b, r : DerivedAt(z, detail, width, u, g, parts, b, r) BY <1>1, RepresentationsDerived
<1>3. PICK extent : extent = ScaleExtent(detail, z.tp, r, z.p) OBVIOUS
<1>4. ObjectAddsUp(d, name, b, r, extent, z.p) BY <1>2, <1>3 DEF DerivedAt
<1>5. /\ g \in Nat /\ parts \in Nat \ {0} /\ b \in Nat /\ r \in Nat \ {0} /\ parts <= r
      /\ detail.kv_heads = g * parts /\ (detail.kv_heads >= z.tp => parts = r)
      /\ whole = [bytes |-> 2 * b, ranks |-> r] /\ detail.total_bytes = 2 * (b * parts)
  BY <1>2 DEF DerivedAt, Dealt
<1>6. d.plane = b /\ d.ranks = r BY <1>4 DEF ObjectAddsUp
<1>7. 2 * d.plane = whole.bytes /\ d.ranks = whole.ranks BY <1>5, <1>6
<1>8. r * b * 2 >= 2 * (b * parts) /\ (parts = r => r * b * 2 = 2 * (b * parts))
  <2>1. b * r >= b * parts /\ r * b * 2 = 2 * (b * r) BY <1>5
  <2> QED BY <1>5, <2>1
<1>9. 2 * b * (g * parts) >= 2 * (b * parts) \/ g * parts = 0
  <2>1. CASE g = 0 BY <1>5, <2>1
  <2>2. CASE g > 0
    <3>1. b * parts \in Nat /\ 2 * b * (g * parts) = (2 * (b * parts)) * g BY <1>5
    <3>2. PICK x \in Nat : x = 2 * (b * parts) BY <3>1
    <3>3. x * g >= x BY <1>5, <2>2
    <3> QED BY <3>1, <3>2, <3>3
  <2> QED BY <1>5, <2>1, <2>2
<1>10. ASSUME REPRESENTATIONS[name].codec, z.p.scope = "per_page_head"
       PROVE  d.components.scales * d.ranks >= 4 * (z.p.chunk_tokens \div z.p.page_size) * detail.kv_heads
  <2>1. PICK pages \in Nat : pages = z.p.chunk_tokens \div z.p.page_size BY <1>2, <1>10 DEF DerivedAt
  <2>2. PICK kv \in Nat : kv = detail.kv_heads
    <3>1. g * parts \in Nat BY <1>5
    <3> QED BY <1>5, <3>1
  <2>3. extent \in Nat /\ extent * r >= pages * kv BY <1>2, <1>3, <1>10, <2>1, <2>2 DEF DerivedAt
  <2>4. d.components.scales = 4 * extent BY <1>4, <1>10 DEF ObjectAddsUp
  <2>5. (4 * extent) * r = 4 * (extent * r) /\ 4 * pages * kv = 4 * (pages * kv) /\ extent * r \in Nat /\ pages * kv \in Nat BY <1>5, <2>3
  <2>6. (4 * extent) * r >= 4 * pages * kv BY <2>3, <2>5
  <2> QED BY <1>6, <2>1, <2>2, <2>4, <2>6
<1>11. (z.p.pad => d.payload_bytes % z.p.block_align = 0) /\ d.physical >= z.p.metadata + d.payload_bytes BY <1>4 DEF ObjectAddsUp
<1> QED BY <1>5, <1>6, <1>7, <1>8, <1>9, <1>10, <1>11

LEMMA SetsBind ==
    ASSUME \A z \in sized : Sizeable(z)
    PROVE  SetBindsIntents
<1> DEFINE names == DOMAIN REPRESENTATIONS
<1> SUFFICES ASSUME NEW z \in sized, NEW detail, detail = kv_cache_bytes(z.named, z.config, z.p.chunk_tokens, z.dtype),
                    \A n \in names : ~Underivable(n, detail, z.tp, z.p),
                    NEW set, set = derive_representation_set(detail, z.dtype, z.tp, z.p, 2)
             PROVE  /\ validate_representation_set(set.manifest, set.intents)
                    /\ \A n, o \in names : set.intents[n] # set.intents[o] =>
                         ~validate_representation_set(set.manifest, [set.intents EXCEPT ![n] = set.intents[o], ![o] = set.intents[n]])
                    /\ set.manifest.host_budget = 2 * set.manifest.objects_per_chunk * set.manifest.entries["bf16_kv"].components.k
  BY DEF SetBindsIntents
<1>1. "bf16_kv" \in names /\ "v8_only" \in names BY DEF REPRESENTATIONS
<1>2. detail.family # "mla" /\ ~Unshardable(detail, z.tp) BY <1>1, DerivableIsDealt
<1>3. PICK width, u, g, parts, b, r : DerivedAt(z, detail, width, u, g, parts, b, r) BY <1>2, RepresentationsDerived
<1>4. b \in Nat /\ r \in Nat BY <1>3 DEF DerivedAt, Dealt
<1>5. PICK extent : extent = ScaleExtent(detail, z.tp, r, z.p) OBVIOUS
<1>6. PICK entry : entry = [n \in names |-> derive_representation(n, detail, z.dtype, z.tp, z.p)] OBVIOUS
<1>7. \A n \in names : ObjectAddsUp(entry[n], n, b, r, extent, z.p) BY <1>3, <1>5, <1>6 DEF DerivedAt
<1>8. PICK intents : intents = [n \in names |-> [payload_bytes |-> entry[n].payload_bytes, ranks |-> entry[n].ranks, chunks |-> 2]] OBVIOUS
<1>9. PICK listing : listing = [entries |-> entry, bound |-> intents, planes |-> [n \in names |-> REPRESENTATIONS[n].stored],
                                objects_per_chunk |-> entry["bf16_kv"].ranks,
                                host_budget |-> entry["v8_only"].host * entry["bf16_kv"].ranks * 2]
  OBVIOUS
<1>10. set = [intents |-> intents, manifest |-> listing] BY <1>6, <1>8, <1>9 DEF derive_representation_set
<1>11. set.intents = intents /\ set.manifest = listing BY <1>10
<1>12. /\ listing.entries = entry /\ listing.bound = intents /\ listing.planes = [n \in names |-> REPRESENTATIONS[n].stored]
       /\ listing.objects_per_chunk = entry["bf16_kv"].ranks /\ listing.host_budget = entry["v8_only"].host * entry["bf16_kv"].ranks * 2
  BY <1>9
<1>13. DOMAIN entry = names /\ DOMAIN intents = names BY <1>6, <1>8
<1>14. \A n \in names : intents[n].payload_bytes = entry[n].payload_bytes /\ intents[n].ranks = entry[n].ranks BY <1>8
<1> HIDE DEF names
<1>15. validate_representation_set(listing, intents)
  <2>1. ASSUME NEW n \in names
        PROVE  /\ entry[n].components.k + entry[n].components.v + entry[n].components.scales + entry[n].components.codec_header
                    + entry[n].components.padding = entry[n].payload_bytes
               /\ listing.planes[n] = REPRESENTATIONS[n].stored
    BY <1>7, <1>12 DEF ObjectAddsUp
  <2> QED BY <1>12, <1>13, <1>14, <2>1 DEF validate_representation_set
<1>16. ASSUME NEW n \in names, NEW o \in names, intents[n] # intents[o]
       PROVE  ~validate_representation_set(listing, [intents EXCEPT ![n] = intents[o], ![o] = intents[n]])
  <2>1. PICK swapped : swapped = [intents EXCEPT ![n] = intents[o], ![o] = intents[n]] OBVIOUS
  <2>2. DOMAIN swapped = names /\ swapped[n] = intents[o] BY <1>13, <1>16, <2>1
  <2>3. listing.bound[n] # swapped[n] BY <1>12, <1>16, <2>2
  <2>4. ~validate_representation_set(listing, swapped) BY <2>2, <2>3 DEF validate_representation_set
  <2> QED BY <2>1, <2>4
<1>17. listing.host_budget = 2 * listing.objects_per_chunk * listing.entries["bf16_kv"].components.k
  <2>1. entry["bf16_kv"].ranks = r /\ entry["bf16_kv"].components.k = b /\ entry["v8_only"].host = b BY <1>1, <1>7 DEF ObjectAddsUp
  <2>2. b * r * 2 = 2 * r * b BY <1>4
  <2> QED BY <1>12, <2>1, <2>2
<1> QED BY <1>11, <1>15, <1>16, <1>17

----------------------------------------------------------------------------
(* Content.                                                                *)

\* A set of naturals has a least element.
LEMMA SmallestNat ==
    ASSUME NEW S \in SUBSET Nat, S # {}
    PROVE  \E x \in S : \A y \in S : x <= y
<1>1. PICK x \in S : \A y \in S : ~(<<y, x>> \in OpToRel(<, Nat)) BY WFMin, NatLessThanWellFounded
<1>2. \A y \in S : ~(y < x) BY <1>1 DEF OpToRel
<1> QED BY <1>2

\* w goes through the beginnings of the sequence flattened.
Flattens(w, seqs, n) ==
    /\ w = [i \in 1 .. n |-> w[i]]
    /\ w[1] = seqs[1] /\ \A i \in 2 .. n : w[i] = w[i - 1] \o seqs[i]
LEMMA FlattenIs ==
    ASSUME NEW seqs, NEW n \in Nat \ {0}, Len(seqs) = n, NEW w, Flattens(w, seqs, n)
    PROVE  FlattenSeq(seqs) = w[n]
<1> DEFINE Is(f) == f = [i \in 1 .. n |-> IF i = 1 THEN seqs[i] ELSE f[i - 1] \o seqs[i]]
           g == CHOOSE f : Is(f)
<1>1. Is(w)
  <2>1. ASSUME NEW i \in 1 .. n PROVE w[i] = IF i = 1 THEN seqs[i] ELSE w[i - 1] \o seqs[i]
    <3>1. CASE i = 1 BY <3>1 DEF Flattens
    <3>2. CASE i # 1
      <4>1. i \in 2 .. n BY <3>2
      <4> QED BY <3>2, <4>1 DEF Flattens
    <3> QED BY <3>1, <3>2
  <2>2. w = [i \in 1 .. n |-> w[i]] BY DEF Flattens
  <2> QED BY <2>1, <2>2
<1>2. Is(g) BY <1>1
<1>3. FlattenSeq(seqs) = g[n]
  <2>1. Len(seqs) # 0 OBVIOUS
  <2> QED BY <2>1 DEF FlattenSeq
<1> DEFINE Bad == {i \in 1 .. n : g[i] # w[i]}
<1>4. Bad = {}
  <2> SUFFICES ASSUME Bad # {} PROVE FALSE OBVIOUS
  <2>1. Bad \in SUBSET Nat OBVIOUS
  <2>2. PICK i \in Bad : \A j \in Bad : i <= j
    <3> HIDE DEF Bad
    <3> QED BY <2>1, SmallestNat
  <2>3. i \in 1 .. n /\ g[i] # w[i] OBVIOUS
  <2> HIDE DEF g
  <2>4. CASE i = 1
    <3>1. g[1] = seqs[1] BY <1>2
    <3> QED BY <2>3, <2>4, <3>1 DEF Flattens
  <2>5. CASE i # 1
    <3>1. i - 1 \in 1 .. n /\ i \in 2 .. n BY <2>3, <2>5
    <3>2. i - 1 \notin Bad
      <4> HIDE DEF Bad
      <4> QED BY <2>2, <2>3
    <3>3. g[i - 1] = w[i - 1] BY <3>1, <3>2
    <3>4. g[i] = g[i - 1] \o seqs[i] BY <1>2, <2>3, <2>5
    <3>5. w[i] = w[i - 1] \o seqs[i] BY <3>1 DEF Flattens
    <3> QED BY <2>3, <3>3, <3>4, <3>5
  <2> QED BY <2>4, <2>5
<1>5. n \in 1 .. n OBVIOUS
<1>6. g[n] = w[n]
  <2> HIDE DEF g
  <2> QED BY <1>4, <1>5
<1> QED BY <1>3, <1>6

\* The byte at x of an identity's content.
ByteAt(profile, identity, x) == BlockByte(profile, identity, x \div profile.block, x % profile.block)
BytesFrom(profile, identity, x, n) == [j \in 1 .. n |-> ByteAt(profile, identity, x + j - 1)]

\* A part of a block is what lies there of the content.
LiesThere(profile, identity, B, b, a, e) ==
    SubSeq([i \in 1 .. B |-> BlockByte(profile, identity, b, i - 1)], a, e)
      = BytesFrom(profile, identity, b * B + (a - 1), e - a + 1)
LEMMA PieceIs ==
    ASSUME NEW profile, NEW identity, NEW B \in Nat \ {0}, B = profile.block, NEW b \in Nat, NEW a \in 1 .. B, NEW e \in a .. B
    PROVE  LiesThere(profile, identity, B, b, a, e)
<1>1. PICK s : s = [i \in 1 .. B |-> BlockByte(profile, identity, b, i - 1)] OBVIOUS
<1>2. PICK n \in Nat : n = e - a + 1 OBVIOUS
<1>3. SubSeq(s, a, e) = [j \in 1 .. n |-> s[a + j - 1]]
  <2>1. SubSeq(s, a, e) = [j \in 1 .. (1 + e - a) |-> s[a + j - 1]] BY DEF SubSeq
  <2>2. 1 + e - a = n BY <1>2
  <2> QED BY <2>1, <2>2
<1>4. ASSUME NEW j \in 1 .. n PROVE s[a + j - 1] = ByteAt(profile, identity, (b * B + (a - 1)) + j - 1)
  <2>1. PICK r \in 0 .. B - 1 : r = a + j - 2 BY <1>2
  <2>2. a + j - 1 \in 1 .. B /\ (a + j - 1) - 1 = r BY <1>2, <2>1
  <2>3. s[a + j - 1] = BlockByte(profile, identity, b, r) BY <1>1, <2>2
  <2>4. (b * B + r) \div B = b /\ (b * B + r) % B = r BY Quotient
  <2>5. b * B \in Nat OBVIOUS
  <2>6. (b * B + (a - 1)) + j - 1 = b * B + r BY <2>1, <2>5
  <2> QED BY <2>3, <2>4, <2>6 DEF ByteAt
<1> QED BY <1>1, <1>2, <1>3, <1>4 DEF BytesFrom, LiesThere

\* Bytes of the content followed by the next ones.
BytesMeet(profile, identity, x, m, n) ==
    BytesFrom(profile, identity, x, m) \o BytesFrom(profile, identity, x + m, n) = BytesFrom(profile, identity, x, m + n)
LEMMA BytesJoin ==
    ASSUME NEW profile, NEW identity, NEW x \in Nat, NEW m \in Nat, NEW n \in Nat
    PROVE  BytesMeet(profile, identity, x, m, n)
<1>1. PICK s : s = BytesFrom(profile, identity, x, m) OBVIOUS
<1>2. PICK t : t = BytesFrom(profile, identity, x + m, n) OBVIOUS
<1>3. PICK all : all = BytesFrom(profile, identity, x, m + n) OBVIOUS
<1>4. DOMAIN s = 1 .. m /\ DOMAIN t = 1 .. n /\ Len(s) = m /\ Len(t) = n BY <1>1, <1>2 DEF BytesFrom
<1>5. s \o t = [i \in 1 .. (m + n) |-> IF i <= m THEN s[i] ELSE t[i - m]]
  <2>1. PICK V : V = {ByteAt(profile, identity, y) : y \in Nat} OBVIOUS
  <2>2. s \in [1 .. m -> V] BY <1>1, <2>1 DEF BytesFrom
  <2>3. t \in [1 .. n -> V] BY <1>2, <2>1 DEF BytesFrom
  <2>4. s \in Seq(V) /\ t \in Seq(V) BY <2>2, <2>3, SeqDef
  <2>5. s \o t \in Seq(V) /\ Len(s \o t) = m + n BY <1>4, <2>4
  <2>6. DOMAIN (s \o t) = 1 .. (m + n) BY <2>5
  <2>7. \A i \in 1 .. (m + n) : (s \o t)[i] = IF i <= m THEN s[i] ELSE t[i - m] BY <1>4, <2>4, ConcatProperties
  <2>8. PICK c : c = s \o t OBVIOUS
  <2>9. PICK k \in Nat : c \in [1 .. k -> V]
    <3>1. c \in Seq(V) BY <2>5, <2>8
    <3> QED BY <3>1, LenProperties
  <2>10. 1 .. k = 1 .. (m + n) BY <2>6, <2>8, <2>9
  <2>11. c \in [1 .. (m + n) -> V] BY <2>9, <2>10
  <2>12. c = [i \in 1 .. (m + n) |-> c[i]] BY <2>11
  <2>13. \A i \in 1 .. (m + n) : c[i] = IF i <= m THEN s[i] ELSE t[i - m] BY <2>7, <2>8
  <2>14. c = [i \in 1 .. (m + n) |-> IF i <= m THEN s[i] ELSE t[i - m]] BY <2>12, <2>13
  <2> QED BY <2>8, <2>14
<1>6. ASSUME NEW i \in 1 .. (m + n) PROVE (IF i <= m THEN s[i] ELSE t[i - m]) = all[i]
  <2>1. all[i] = ByteAt(profile, identity, x + i - 1) BY <1>3 DEF BytesFrom
  <2>2. CASE i <= m
    <3>1. i \in 1 .. m BY <2>2
    <3> QED BY <1>1, <2>1, <2>2, <3>1 DEF BytesFrom
  <2>3. CASE i > m
    <3>1. i - m \in 1 .. n /\ (x + m) + (i - m) - 1 = x + i - 1 BY <2>3
    <3>2. t[i - m] = ByteAt(profile, identity, (x + m) + (i - m) - 1) BY <1>2, <3>1 DEF BytesFrom
    <3>3. ByteAt(profile, identity, (x + m) + (i - m) - 1) = ByteAt(profile, identity, x + i - 1) BY <3>1
    <3> QED BY <2>1, <2>3, <3>2, <3>3
  <2> QED BY <2>2, <2>3
<1>7. all = [i \in 1 .. (m + n) |-> all[i]] BY <1>3 DEF BytesFrom
<1> QED BY <1>1, <1>2, <1>3, <1>5, <1>6, <1>7 DEF BytesMeet

LEMMA MinOfTwo ==
    ASSUME NEW a \in Int, NEW b \in Int
    PROVE  Min({a, b}) = IF a <= b THEN a ELSE b
<1>1. CASE a <= b
  <2>1. a \in {a, b} /\ \A y \in {a, b} : a <= y BY <1>1
  <2>2. \A x \in {a, b} : (\A y \in {a, b} : x <= y) => x = a BY <1>1
  <2> QED BY <1>1, <2>1, <2>2 DEF Min
<1>2. CASE ~(a <= b)
  <2>1. b \in {a, b} /\ \A y \in {a, b} : b <= y BY <1>2
  <2>2. \A x \in {a, b} : (\A y \in {a, b} : x <= y) => x = b BY <1>2
  <2> QED BY <1>2, <2>1, <2>2 DEF Min
<1> QED BY <1>1, <1>2

\* Where the range's part of the i-th of n blocks ends, counted from the
\* range's beginning.
EndOf(B, first, offset, length, n, i) == IF i = n THEN length ELSE (first + i) * B - offset

\* The part from a to e of block b, the i-th, which ends at x and before
\* which the range is read up to y.
CutAt(B, offset, i, b, a, e, x, y) ==
    /\ a \in 1 .. B /\ e \in a .. B /\ x \in Nat
    /\ i = 1 => b * B + (a - 1) = offset /\ e - a + 1 = x
    /\ i # 1 => y \in Nat /\ b * B + (a - 1) = offset + y /\ e - a + 1 = x - y /\ x >= y

\* The i-th block the range touches begins where the part before it ended,
\* and the part to be cut of it ends at the block's or the range's end.
LEMMA Blocks ==
    ASSUME NEW B \in Nat \ {0}, NEW offset \in Nat, NEW length \in Nat \ {0},
           NEW first \in Nat, NEW r \in 0 .. B - 1, offset = B * first + r,
           NEW end \in Nat, NEW s \in 0 .. B - 1, offset + length - 1 = B * end + s,
           NEW n \in Nat \ {0}, n = end - first + 1, NEW i \in 1 .. n,
           NEW b \in Nat, b = first + i - 1,
           NEW a, a = IF i = 1 THEN r + 1 ELSE 1,
           NEW e, e = IF B <= offset + length - b * B THEN B ELSE offset + length - b * B
    PROVE  CutAt(B, offset, i, b, a, e, EndOf(B, first, offset, length, n, i), EndOf(B, first, offset, length, n, i - 1))
<1>1. PICK lo \in Nat : lo = b * B
  <2>1. b * B \in Nat OBVIOUS
  <2> QED BY <2>1
<1>2. PICK f \in Nat : f = first * B
  <2>1. first * B \in Nat OBVIOUS
  <2> QED BY <2>1
<1>3. PICK l \in Nat : l = end * B
  <2>1. end * B \in Nat OBVIOUS
  <2> QED BY <2>1
<1>4. (first + i) * B = lo + B
  <2>1. first + i = b + 1 OBVIOUS
  <2>2. (b + 1) * B = b * B + B OBVIOUS
  <2> QED BY <1>1, <2>1, <2>2
<1>5. i # 1 => (first + (i - 1)) * B = lo
  <2>1. first + (i - 1) = b OBVIOUS
  <2> QED BY <1>1, <2>1
<1>6. offset = f + r /\ offset + length - 1 = l + s
  <2>1. B * first = first * B /\ B * end = end * B OBVIOUS
  <2> QED BY <1>2, <1>3, <2>1
<1>7. i = 1 => lo = f
  <2>1. i = 1 => b = first OBVIOUS
  <2> QED BY <1>1, <1>2, <2>1
<1>8. i = n => lo = l
  <2>1. i = n => b = end OBVIOUS
  <2> QED BY <1>1, <1>3, <2>1
<1>9. i # n => lo + B <= l
  <2> SUFFICES ASSUME i # n PROVE lo + B <= l OBVIOUS
  <2>1. PICK k \in Nat : end = b + 1 + k
    <3>1. end - b - 1 \in Nat /\ end = b + 1 + (end - b - 1) OBVIOUS
    <3> QED BY <3>1
  <2>2. end * B = b * B + B + k * B /\ k * B \in Nat BY <2>1
  <2>3. PICK kb \in Nat : kb = k * B BY <2>2
  <2>4. l = lo + B + kb BY <1>1, <1>3, <2>2, <2>3
  <2> QED BY <2>4
<1>10. i # 1 => lo >= f + B
  <2> SUFFICES ASSUME i # 1 PROVE lo >= f + B OBVIOUS
  <2>1. PICK k \in Nat : b = first + 1 + k
    <3>1. b - first - 1 \in Nat /\ b = first + 1 + (b - first - 1) OBVIOUS
    <3> QED BY <3>1
  <2>2. b * B = first * B + B + k * B /\ k * B \in Nat BY <2>1
  <2>3. PICK kb \in Nat : kb = k * B BY <2>2
  <2>4. lo = f + B + kb BY <1>1, <1>2, <2>2, <2>3
  <2> QED BY <2>4
<1>11. PICK x : x = EndOf(B, first, offset, length, n, i) OBVIOUS
<1>12. x = IF i = n THEN length ELSE lo + B - offset BY <1>4, <1>11 DEF EndOf
<1>13. PICK y : y = EndOf(B, first, offset, length, n, i - 1) OBVIOUS
<1>14. i # 1 => y = lo - offset
  <2>1. i - 1 # n OBVIOUS
  <2> QED BY <1>5, <1>13, <2>1 DEF EndOf
<1>15. e = IF B <= offset + length - lo THEN B ELSE offset + length - lo BY <1>1
<1>16. a \in 1 .. B /\ e \in a .. B /\ x \in Nat
  <2>1. CASE i = n
    <3>1. lo = l BY <1>8, <2>1
    <3>2. x = length BY <1>12, <2>1
    <3>3. e = s + 1 BY <1>6, <1>15, <3>1
    <3> QED BY <1>6, <1>7, <1>10, <1>14, <3>1, <3>2, <3>3
  <2>2. CASE i # n BY <1>6, <1>7, <1>9, <1>10, <1>12, <1>15, <2>2
  <2> QED BY <2>1, <2>2
<1>17. i = 1 => lo + (a - 1) = offset /\ e - a + 1 = x
  <2>1. CASE i = n
    <3>1. lo = l BY <1>8, <2>1
    <3>2. x = length BY <1>12, <2>1
    <3>3. e = s + 1 BY <1>6, <1>15, <3>1
    <3> QED BY <1>6, <1>7, <1>10, <1>14, <3>1, <3>2, <3>3
  <2>2. CASE i # n BY <1>6, <1>7, <1>9, <1>10, <1>12, <1>15, <2>2
  <2> QED BY <2>1, <2>2
<1>18. i # 1 => y \in Nat /\ lo + (a - 1) = offset + y /\ e - a + 1 = x - y /\ x >= y
  <2>1. CASE i = n
    <3>1. lo = l BY <1>8, <2>1
    <3>2. x = length BY <1>12, <2>1
    <3>3. e = s + 1 BY <1>6, <1>15, <3>1
    <3> QED BY <1>6, <1>7, <1>10, <1>14, <3>1, <3>2, <3>3
  <2>2. CASE i # n BY <1>6, <1>9, <1>10, <1>12, <1>14, <1>15, <2>2
  <2> QED BY <2>1, <2>2
<1> QED BY <1>1, <1>11, <1>13, <1>16, <1>17, <1>18 DEF CutAt

\* What content returns: the bytes of the range.
LEMMA ContentIs ==
    ASSUME NEW profile, NEW identity, NEW B \in Nat \ {0}, B = profile.block, NEW offset \in Nat, NEW length \in Nat
    PROVE  content(profile, identity, offset, length) = BytesFrom(profile, identity, offset, length)
<1>1. CASE length = 0
  <2>1. content(profile, identity, offset, length) = <<>>
    <3> DEFINE Piece(i) == SubSeq([j \in 1 .. B |-> BlockByte(profile, identity, offset \div B + i - 1, j - 1)],
                                  IF i = 1 THEN (offset % B) + 1 ELSE 1,
                                  Min({B, offset + length - (offset \div B + i - 1) * B}))
    <3>1. content(profile, identity, offset, length) = FlattenSeq([i \in 1 .. 0 |-> Piece(i)]) BY <1>1 DEF content
    <3> HIDE DEF Piece
    <3>2. [i \in 1 .. 0 |-> Piece(i)] = <<>> OBVIOUS
    <3>3. FlattenSeq(<<>>) = <<>> BY DEF FlattenSeq
    <3> QED BY <3>1, <3>2, <3>3
  <2>2. BytesFrom(profile, identity, offset, length) = <<>> BY <1>1 DEF BytesFrom
  <2> QED BY <2>1, <2>2
<1>2. CASE length # 0
  <2>1. PICK first \in Nat, r \in 0 .. B - 1 : first = offset \div B /\ r = offset % B /\ offset = B * first + r
    <3>1. offset \div B \in Nat /\ offset % B \in 0 .. B - 1 /\ offset = B * (offset \div B) + (offset % B) BY Division
    <3> QED BY <3>1
  <2>2. PICK final \in Nat : final = offset + length - 1 BY <1>2
  <2>3. PICK end \in Nat, s \in 0 .. B - 1 : end = final \div B /\ final = B * end + s
    <3>1. final \div B \in Nat /\ final % B \in 0 .. B - 1 /\ final = B * (final \div B) + (final % B) BY Division
    <3> QED BY <3>1
  <2>4. end >= first
    <3> SUFFICES ASSUME end < first PROVE FALSE OBVIOUS
    <3>1. PICK k \in Nat : first = end + 1 + k
      <4>1. first - end - 1 \in Nat /\ first = end + 1 + (first - end - 1) OBVIOUS
      <4> QED BY <4>1
    <3>2. B * first = B * end + B + k * B /\ k * B \in Nat /\ B * end \in Nat BY <3>1
    <3> QED BY <1>2, <2>1, <2>2, <2>3, <3>2
  <2>5. PICK n \in Nat \ {0} : n = end - first + 1 BY <2>4
  <2> DEFINE Piece(i) == SubSeq([j \in 1 .. B |-> BlockByte(profile, identity, first + i - 1, j - 1)],
                                IF i = 1 THEN r + 1 ELSE 1, Min({B, offset + length - (first + i - 1) * B}))
             End(i) == EndOf(B, first, offset, length, n, i)
  <2>6. PICK seqs : seqs = [i \in 1 .. n |-> Piece(i)] OBVIOUS
  <2>7. content(profile, identity, offset, length) = FlattenSeq(seqs) BY <1>2, <2>1, <2>2, <2>3, <2>5, <2>6 DEF content
  <2>8. ASSUME NEW i \in 1 .. n
        PROVE  /\ End(i) \in Nat
               /\ i = 1 => Piece(i) = BytesFrom(profile, identity, offset, End(i))
               /\ i # 1 => /\ End(i - 1) \in Nat /\ End(i) - End(i - 1) \in Nat
                           /\ Piece(i) = BytesFrom(profile, identity, offset + End(i - 1), End(i) - End(i - 1))
    <3>1. PICK b \in Nat : b = first + i - 1 OBVIOUS
    <3>2. PICK a : a = IF i = 1 THEN r + 1 ELSE 1 OBVIOUS
    <3>3. PICK rest \in Int : rest = offset + length - b * B
      <4>1. b * B \in Nat OBVIOUS
      <4> QED BY <4>1
    <3>4. PICK e : e = IF B <= rest THEN B ELSE rest OBVIOUS
    <3>5. Min({B, rest}) = e BY <3>4, MinOfTwo
    <3>6. offset + length - 1 = B * end + s /\ length \in Nat \ {0} BY <1>2, <2>2, <2>3
    <3>7. e = IF B <= offset + length - b * B THEN B ELSE offset + length - b * B BY <3>3, <3>4
    <3>8. /\ a \in 1 .. B /\ e \in a .. B /\ End(i) \in Nat
          /\ i = 1 => b * B + (a - 1) = offset /\ e - a + 1 = End(i)
          /\ i # 1 => /\ End(i - 1) \in Nat /\ b * B + (a - 1) = offset + End(i - 1)
                      /\ e - a + 1 = End(i) - End(i - 1) /\ End(i) >= End(i - 1)
      <4> HIDE DEF Piece, End
      <4>1. CutAt(B, offset, i, b, a, e, EndOf(B, first, offset, length, n, i), EndOf(B, first, offset, length, n, i - 1))
        BY <2>1, <2>5, <3>1, <3>2, <3>6, <3>7, Blocks
      <4> QED BY <4>1 DEF CutAt, End
    <3>9. Piece(i) = SubSeq([j \in 1 .. B |-> BlockByte(profile, identity, b, j - 1)], a, e) BY <3>1, <3>2, <3>3, <3>5
    <3>10. Piece(i) = BytesFrom(profile, identity, b * B + (a - 1), e - a + 1)
      <4> HIDE DEF Piece, End
      <4>1. a \in 1 .. B /\ e \in a .. B BY <3>8
      <4>2. LiesThere(profile, identity, B, b, a, e) BY <4>1, PieceIs
      <4> QED BY <3>9, <4>2 DEF LiesThere
    <3> HIDE DEF Piece, End
    <3>11. i # 1 => End(i) - End(i - 1) \in Nat BY <3>8
    <3> QED BY <3>8, <3>10, <3>11
  <2>9. PICK w : w = [i \in 1 .. n |-> BytesFrom(profile, identity, offset, End(i))] OBVIOUS
  <2> HIDE DEF Piece
  <2>10. End(n) = length BY DEF EndOf
  <2> HIDE DEF End
  <2>11. Flattens(w, seqs, n)
    <3>1. w = [i \in 1 .. n |-> w[i]] BY <2>9
    <3>2. 1 \in 1 .. n BY <2>5
    <3>3. w[1] = seqs[1] BY <2>6, <2>8, <2>9, <3>2
    <3>4. ASSUME NEW i \in 2 .. n PROVE w[i] = w[i - 1] \o seqs[i]
      <4>1. i \in 1 .. n /\ i - 1 \in 1 .. n /\ i # 1 BY <2>5
      <4>2. PICK m \in Nat, k \in Nat : m = End(i - 1) /\ k = End(i) - End(i - 1) /\ m + k = End(i)
        <5>1. End(i - 1) \in Nat /\ End(i) - End(i - 1) \in Nat /\ End(i) \in Nat BY <2>8, <4>1
        <5>2. End(i - 1) + (End(i) - End(i - 1)) = End(i) BY <5>1
        <5> QED BY <5>1, <5>2
      <4>3. seqs[i] = BytesFrom(profile, identity, offset + m, k) BY <2>6, <2>8, <4>1, <4>2
      <4>4. w[i] = BytesFrom(profile, identity, offset, m + k) /\ w[i - 1] = BytesFrom(profile, identity, offset, m)
        BY <2>9, <4>1, <4>2
      <4>5. BytesMeet(profile, identity, offset, m, k) BY BytesJoin
      <4> QED BY <4>3, <4>4, <4>5 DEF BytesMeet
    <3> QED BY <3>1, <3>3, <3>4 DEF Flattens
  <2>12. Len(seqs) = n BY <2>6
  <2>13. FlattenSeq(seqs) = w[n] BY <2>11, <2>12, FlattenIs
  <2>14. w[n] = BytesFrom(profile, identity, offset, length)
    <3>1. n \in 1 .. n BY <2>5
    <3> QED BY <2>9, <2>10, <3>1
  <2> QED BY <2>7, <2>13, <2>14
<1> QED BY <1>1, <1>2

\* A part of a read is a read of the part.
LEMMA RangesAgree ==
    ASSUME \A z \in sized : z.profile.block \in Nat \ {0}
    PROVE  RangedReadsAgree
<1> SUFFICES ASSUME NEW z \in sized, NEW offset \in 0 .. 2 * z.profile.block + 1, NEW length \in 0 .. 2 * z.profile.block + 1
             PROVE  content(z.profile, z.tp, offset, length)
                      = SubSeq(content(z.profile, z.tp, 0, offset + length), offset + 1, offset + length)
  BY DEF RangedReadsAgree
<1>1. PICK B \in Nat \ {0} : B = z.profile.block OBVIOUS
<1>2. offset \in Nat /\ length \in Nat BY <1>1
<1>3. PICK total \in Nat : total = offset + length BY <1>2
<1>4. content(z.profile, z.tp, offset, length) = BytesFrom(z.profile, z.tp, offset, length) BY <1>1, <1>2, ContentIs
<1>5. PICK all : all = content(z.profile, z.tp, 0, total) OBVIOUS
<1>6. all = BytesFrom(z.profile, z.tp, 0, total) BY <1>1, <1>5, ContentIs
<1>7. SubSeq(all, offset + 1, total) = [j \in 1 .. length |-> all[(offset + 1) + j - 1]]
  <2>1. SubSeq(all, offset + 1, total) = [j \in 1 .. (1 + total - (offset + 1)) |-> all[(offset + 1) + j - 1]] BY DEF SubSeq
  <2>2. 1 + total - (offset + 1) = length BY <1>2, <1>3
  <2> QED BY <2>1, <2>2
<1>8. ASSUME NEW j \in 1 .. length PROVE all[(offset + 1) + j - 1] = ByteAt(z.profile, z.tp, offset + j - 1)
  <2>1. PICK x \in 1 .. total : x = (offset + 1) + j - 1 BY <1>2, <1>3
  <2>2. all[x] = ByteAt(z.profile, z.tp, 0 + x - 1) BY <1>6 DEF BytesFrom
  <2>3. 0 + x - 1 = offset + j - 1 BY <1>2, <2>1
  <2> QED BY <2>1, <2>2, <2>3
<1>9. SubSeq(all, offset + 1, total) = BytesFrom(z.profile, z.tp, offset, length) BY <1>7, <1>8 DEF BytesFrom
<1> QED BY <1>3, <1>4, <1>5, <1>9

\* The sizes of a chunk's shards, in every representation and on every rank,
\* and the content they hold add up, for every configuration with whole heads.
THEOREM SizesRight == SizeSpec => []SizesAddUp
<1> DEFINE Inv == \A z \in sized : Sizeable(z)
<1>1. SizeInit => Inv BY SizesAssumption DEF SizeInit
<1>2. Inv /\ [UNCHANGED sized]_sized => Inv' OBVIOUS
<1>3. Inv => SizesAddUp
  <2> SUFFICES ASSUME Inv PROVE SizesAddUp OBVIOUS
  <2>1. \A z \in sized : z.profile.block \in Nat \ {0} BY DEF Sizeable
  <2> QED BY <2>1, ShardsCover, SetsBind, RangesAgree DEF SizesAddUp
<1> QED BY <1>1, <1>2, <1>3, PTL DEF SizeSpec

----------------------------------------------------------------------------
(* The offload driver: run_kv_offload_io.py and the intent it replays.     *)

\* The driver and the counter move on.
LEMMA MarkersStep ==
    ASSUME WarmupNotNegative, MarkersInv, [DriverNext]_driverVars
    PROVE  MarkersInv'
  <1> opt.dims.warmup \in Nat
    BY DEF WarmupNotNegative, MarkersInv
  <1>1. CASE Parse
    BY <1>1 DEF Parse, Exit, OptionsAccepted, MarkersInv
  <1>2. CASE Setup
    BY <1>2 DEF Setup, Exit, MarkersInv
  <1>3. CASE Go
    BY <1>3 DEF Go, MarkersInv
  <1>4. CASE GateTimeout
    BY <1>4 DEF GateTimeout, Exit, MarkersInv
  <1>5. CASE BarrierOpens
    BY <1>5 DEF BarrierOpens, MarkersInv
  <1>6. CASE Joined
    <2>1. /\ dstep = "run" /\ UNCHANGED <<opt, outside>>
          /\ \/ UNCHANGED <<pass, dstep, markers>>
             \/ /\ pass' = pass + 1 /\ dstep' \in {"closing", "report"}
             \/ /\ pass' = pass + 1 /\ opt.gate /\ pass + 1 = opt.dims.warmup
                /\ dstep' = "gate" /\ markers' = markers \cup {"READY"}
             \/ /\ pass' = pass + 1 /\ ~(opt.gate /\ pass + 1 = opt.dims.warmup)
                /\ dstep' = "run" /\ markers' = markers \cup {}
      <3>1. CASE phase = "store"
        BY <1>6, <3>1 DEF Joined
      <3>2. CASE phase # "store" /\ pass + 1 = opt.dims.warmup + opt.dims.iters
        BY <1>6, <3>2 DEF Joined
      <3>3. CASE phase # "store" /\ pass + 1 # opt.dims.warmup + opt.dims.iters
        BY <1>6, <3>3 DEF Joined
      <3> QED
        BY <3>1, <3>2, <3>3
    <2> QED
      BY <2>1 DEF MarkersInv
  <1>7. CASE Close
    BY <1>7 DEF Close, MarkersInv
  <1>8. CASE CloseTimeout
    BY <1>8 DEF CloseTimeout, Exit, MarkersInv
  <1>9. CASE Report
    BY <1>9 DEF Report, Exit, MarkersInv
  <1>10. CASE \E s \in StreamIds(opt) : Operate(s)
    <2>1. /\ UNCHANGED <<opt, dstep, pass, markers>> /\ dstep = "run"
          /\ outside' = outside + (IF \/ (pass >= opt.dims.warmup /\ ~Charged)
                                      \/ (~(pass >= opt.dims.warmup) /\ opt.gate /\ Charged) THEN 1 ELSE 0)
      BY <1>10 DEF Operate
    <2> QED
      BY <2>1 DEF MarkersInv, Charged
  <1>11. CASE Attach
    BY <1>11 DEF Attach, MarkersInv
  <1>12. CASE Detach
    BY <1>12 DEF Detach, MarkersInv
  <1>13. CASE UNCHANGED driverVars
    BY <1>13 DEF driverVars, MarkersInv
  <1> QED
    BY <1>1, <1>2, <1>3, <1>4, <1>5, <1>6, <1>7, <1>8, <1>9, <1>10, <1>11, <1>12, <1>13 DEF DriverNext

\* For any command lines, streams, passes and failing operations: between GO
\* and DONE the driver performs the timed operations, all of them and nothing
\* else, if the warmup is not negative (run_kv_offload_io, the phase gate).
THEOREM DriverCharged == WarmupNotNegative => (DriverSpec => []MarkersInv)
  <1> SUFFICES ASSUME WarmupNotNegative PROVE DriverSpec => []MarkersInv
    OBVIOUS
  <1>1. DriverInit => MarkersInv
    BY DEF DriverInit, MarkersInv
  <1> QED
    BY <1>1, MarkersStep, PTL DEF DriverSpec

\* The quotient and the remainder of a place among n times m ones.
LEMMA PlaceIn ==
    ASSUME NEW n \in Nat, NEW m \in Nat \ {0}, NEW k \in 1 .. n * m
    PROVE  (k - 1) \div m \in 0 .. n - 1 /\ (k - 1) % m \in 0 .. m - 1
<1>1. PICK x \in Nat : x = k - 1 OBVIOUS
<1>2. PICK quo \in Nat, r \in 0 .. m - 1 : quo = x \div m /\ r = x % m /\ x = m * quo + r BY Division
<1>3. quo < n
  <2> SUFFICES ASSUME quo >= n PROVE FALSE OBVIOUS
  <2>1. PICK e \in Nat : quo = n + e
    <3>1. quo - n \in Nat /\ quo = n + (quo - n) OBVIOUS
    <3> QED BY <3>1
  <2>2. m * quo = n * m + e * m /\ e * m \in Nat /\ n * m \in Nat BY <2>1
  <2> QED BY <1>1, <1>2, <2>2
<1> QED BY <1>1, <1>2, <1>3

\* Two sequences, one after the other.
OneAfterOther(s, t, m, n, V) ==
    /\ s \o t = [i \in 1 .. (m + n) |-> IF i <= m THEN s[i] ELSE t[i - m]]
    /\ s \o t \in [1 .. (m + n) -> V]
LEMMA ConcatIs ==
    ASSUME NEW V, NEW m \in Nat, NEW n \in Nat, NEW s \in [1 .. m -> V], NEW t \in [1 .. n -> V]
    PROVE  OneAfterOther(s, t, m, n, V)
<1>1. s \in Seq(V) /\ t \in Seq(V) /\ Len(s) = m /\ Len(t) = n BY SeqDef
<1>2. PICK c : c = s \o t OBVIOUS
<1>3. c \in Seq(V) /\ Len(c) = m + n BY <1>1, <1>2
<1>4. c \in [1 .. (m + n) -> V] BY <1>3, LenProperties
<1>5. \A i \in 1 .. (m + n) : c[i] = IF i <= m THEN s[i] ELSE t[i - m] BY <1>1, <1>2, ConcatProperties
<1>6. c = [i \in 1 .. (m + n) |-> c[i]] BY <1>4
<1>7. c = [i \in 1 .. (m + n) |-> IF i <= m THEN s[i] ELSE t[i - m]] BY <1>5, <1>6
<1> QED BY <1>2, <1>4, <1>7 DEF OneAfterOther

\* Sequences of one length, one after the other: an element's place is the
\* number of its sequence and the place in it, in base width.
Evenly(seqs, n, width) == [k \in 1 .. n * width |-> seqs[((k - 1) \div width) + 1][((k - 1) % width) + 1]]

LEMMA EvenlyType ==
    ASSUME NEW V, NEW n \in Nat, NEW m \in Nat, m <= n, NEW width \in Nat \ {0}, NEW seqs \in [1 .. n -> [1 .. width -> V]]
    PROVE  Evenly(seqs, m, width) \in [1 .. m * width -> V]
<1> SUFFICES ASSUME NEW k \in 1 .. m * width PROVE seqs[((k - 1) \div width) + 1][((k - 1) % width) + 1] \in V
  BY DEF Evenly
<1>1. PICK quo \in 0 .. m - 1, r \in 0 .. width - 1 : quo = (k - 1) \div width /\ r = (k - 1) % width BY PlaceIn
<1>2. quo + 1 \in 1 .. n /\ r + 1 \in 1 .. width OBVIOUS
<1> QED BY <1>1, <1>2

LEMMA FlattenEven ==
    ASSUME NEW V, NEW n \in Nat \ {0}, NEW width \in Nat \ {0}, NEW seqs \in [1 .. n -> [1 .. width -> V]]
    PROVE  FlattenSeq(seqs) = Evenly(seqs, n, width) /\ FlattenSeq(seqs) \in [1 .. n * width -> V]
<1>1. PICK w : w = [i \in 1 .. n |-> Evenly(seqs, i, width)] OBVIOUS
<1>2. ASSUME NEW i \in 2 .. n PROVE Evenly(seqs, i, width) = Evenly(seqs, i - 1, width) \o seqs[i]
  <2>1. PICK j \in Nat : j = i - 1 /\ j <= n OBVIOUS
  <2>2. PICK s : s = Evenly(seqs, j, width) OBVIOUS
  <2>3. PICK m \in Nat : m = j * width
    <3>1. j * width \in Nat OBVIOUS
    <3> QED BY <3>1
  <2>4. s \in [1 .. m -> V] BY <2>1, <2>2, <2>3, EvenlyType
  <2>5. PICK t : t = seqs[i] OBVIOUS
  <2>6. t \in [1 .. width -> V] BY <2>5
  <2>7. s \o t = [k \in 1 .. (m + width) |-> IF k <= m THEN s[k] ELSE t[k - m]]
    <3>1. OneAfterOther(s, t, m, width, V) BY <2>4, <2>6, ConcatIs
    <3> QED BY <3>1 DEF OneAfterOther
  <2>8. i * width = m + width
    <3>1. i = j + 1 BY <2>1
    <3>2. (j + 1) * width = j * width + width OBVIOUS
    <3> QED BY <2>3, <3>1, <3>2
  <2>9. ASSUME NEW k \in 1 .. (m + width)
        PROVE  (IF k <= m THEN s[k] ELSE t[k - m]) = seqs[((k - 1) \div width) + 1][((k - 1) % width) + 1]
    <3>1. CASE k <= m
      <4>1. k \in 1 .. j * width BY <2>3, <3>1
      <4> QED BY <2>2, <3>1, <4>1 DEF Evenly
    <3>2. CASE k > m
      <4>1. PICK r \in 0 .. width - 1 : r = k - m - 1 BY <3>2
      <4>2. (j * width + r) \div width = j /\ (j * width + r) % width = r BY Quotient
      <4>3. j * width + r = k - 1 BY <2>3, <4>1
      <4>4. j + 1 = i /\ r + 1 = k - m BY <2>1, <4>1
      <4>5. (k - 1) \div width = j /\ (k - 1) % width = r BY <4>2, <4>3
      <4>6. seqs[((k - 1) \div width) + 1][((k - 1) % width) + 1] = t[k - m] BY <2>5, <4>4, <4>5
      <4>7. ~(k <= m) BY <3>2
      <4> QED BY <4>6, <4>7
    <3> QED BY <3>1, <3>2
  <2>10. Evenly(seqs, i, width) = [k \in 1 .. (m + width) |-> seqs[((k - 1) \div width) + 1][((k - 1) % width) + 1]]
    BY <2>8 DEF Evenly
  <2>11. s \o t = Evenly(seqs, i, width) BY <2>7, <2>9, <2>10
  <2> QED BY <2>1, <2>2, <2>5, <2>11
<1>3. Evenly(seqs, 1, width) = seqs[1]
  <2>1. PICK t : t = seqs[1] OBVIOUS
  <2>2. t \in [1 .. width -> V] BY <2>1
  <2>3. 1 * width = width OBVIOUS
  <2>4. ASSUME NEW k \in 1 .. width PROVE seqs[((k - 1) \div width) + 1][((k - 1) % width) + 1] = t[k]
    <3>1. PICK r \in 0 .. width - 1 : r = k - 1 OBVIOUS
    <3>2. (0 * width + r) \div width = 0 /\ (0 * width + r) % width = r BY Quotient
    <3>3. 0 * width + r = k - 1 /\ 0 + 1 = 1 /\ r + 1 = k BY <3>1
    <3> QED BY <2>1, <3>2, <3>3
  <2>5. Evenly(seqs, 1, width) = [k \in 1 .. width |-> t[k]] BY <2>3, <2>4 DEF Evenly
  <2> QED BY <2>1, <2>2, <2>5
<1>4. Flattens(w, seqs, n)
  <2>1. w = [i \in 1 .. n |-> w[i]] BY <1>1
  <2>2. w[1] = seqs[1] BY <1>1, <1>3
  <2>3. ASSUME NEW i \in 2 .. n PROVE w[i] = w[i - 1] \o seqs[i]
    <3>1. i \in 1 .. n /\ i - 1 \in 1 .. n OBVIOUS
    <3> QED BY <1>1, <1>2, <3>1
  <2> QED BY <2>1, <2>2, <2>3 DEF Flattens
<1>5. Len(seqs) = n OBVIOUS
<1>6. FlattenSeq(seqs) = w[n] BY <1>4, <1>5, FlattenIs
<1>7. w[n] = Evenly(seqs, n, width) BY <1>1
<1>8. Evenly(seqs, n, width) \in [1 .. n * width -> V]
  <2>1. n \in Nat /\ n <= n OBVIOUS
  <2> QED BY <2>1, EvenlyType
<1> QED BY <1>6, <1>7, <1>8

\* The dimensions validate_intent accepts.
Dims(d) ==
    /\ d.chunks \in Nat \ {0} /\ d.streams \in Nat \ {0} /\ d.ranks \in Nat \ {0} /\ d.iters \in Nat \ {0}
    /\ d.payload \in Nat \ {0} /\ d.warmup \in Nat /\ d.metadata \in Nat

LEMMA DimsAre ==
    ASSUME NEW d, Dims(d)
    PROVE  /\ InStream(d) \in Nat \ {0} /\ InPhase(d) \in Nat \ {0} /\ InPhase(d) = d.streams * InStream(d)
           /\ PassesOf(d) \in Nat \ {0}
<1>1. PICK c \in Nat \ {0}, r \in Nat \ {0}, s \in Nat \ {0} : c = d.chunks /\ r = d.ranks /\ s = d.streams BY DEF Dims
<1>2. PICK m \in Nat \ {0} : m = c * r
  <2>1. c * r \in Nat \ {0} OBVIOUS
  <2> QED BY <2>1
<1>3. s * m \in Nat \ {0} OBVIOUS
<1>4. s * c * r = s * (c * r) OBVIOUS
<1>5. d.warmup + d.iters \in Nat \ {0} BY DEF Dims
<1> QED BY <1>1, <1>2, <1>3, <1>4, <1>5 DEF InStream, InPhase, PassesOf

\* The operations by their place in the stream, the phase and the intent.
OperationsOf(d) ==
    {BuiltOperation(d, v[1], v[2], v[3], v[4], v[5]) : v \in Nat \X {"store", "load"} \X Nat \X Nat \X Nat}
InStreamAt(d, it, name, stream, y) == BuiltOperation(d, it, name, stream, y \div d.ranks, y % d.ranks)
InPhaseAt(d, it, name, x) == InStreamAt(d, it, name, x \div InStream(d), x % InStream(d))
InPassAt(d, it, x) == IF x < InPhase(d) THEN InPhaseAt(d, it, "store", x) ELSE InPhaseAt(d, it, "load", x - InPhase(d))
InIntentAt(d, x) == InPassAt(d, x \div (2 * InPhase(d)), x % (2 * InPhase(d)))

LEMMA StreamOperationsAre ==
    ASSUME NEW d, Dims(d), NEW it \in Nat, NEW name \in {"store", "load"}, NEW stream \in Nat
    PROVE  /\ StreamOperations(d, it, name, stream) = [k \in 1 .. InStream(d) |-> InStreamAt(d, it, name, stream, k - 1)]
           /\ StreamOperations(d, it, name, stream) \in [1 .. InStream(d) -> OperationsOf(d)]
<1>1. PICK n \in Nat \ {0}, m \in Nat \ {0} : n = d.chunks /\ m = d.ranks BY DEF Dims
<1>2. PICK seqs : seqs = [chunk \in 1 .. n |-> [rank \in 1 .. m |-> BuiltOperation(d, it, name, stream, chunk - 1, rank - 1)]] OBVIOUS
<1>3. \A chunk \in 1 .. n, rank \in 1 .. m : BuiltOperation(d, it, name, stream, chunk - 1, rank - 1) \in OperationsOf(d)
  <2> SUFFICES ASSUME NEW chunk \in 1 .. n, NEW rank \in 1 .. m
               PROVE  BuiltOperation(d, it, name, stream, chunk - 1, rank - 1) \in OperationsOf(d)
    OBVIOUS
  <2>1. PICK c \in Nat, r \in Nat : c = chunk - 1 /\ r = rank - 1 OBVIOUS
  <2>2. PICK v \in Nat \X {"store", "load"} \X Nat \X Nat \X Nat : v = <<it, name, stream, c, r>> OBVIOUS
  <2>3. v[1] = it /\ v[2] = name /\ v[3] = stream /\ v[4] = c /\ v[5] = r BY <2>2
  <2> QED BY <2>1, <2>3 DEF OperationsOf
<1>4. seqs \in [1 .. n -> [1 .. m -> OperationsOf(d)]] BY <1>2, <1>3
<1>5. FlattenSeq(seqs) = Evenly(seqs, n, m) /\ FlattenSeq(seqs) \in [1 .. n * m -> OperationsOf(d)] BY <1>4, FlattenEven
<1>6. StreamOperations(d, it, name, stream) = FlattenSeq(seqs) BY <1>1, <1>2 DEF StreamOperations
<1>7. n * m = InStream(d) BY <1>1 DEF InStream
<1>8. ASSUME NEW k \in 1 .. n * m
      PROVE  seqs[((k - 1) \div m) + 1][((k - 1) % m) + 1] = InStreamAt(d, it, name, stream, k - 1)
  <2>1. PICK x \in Nat : x = k - 1 OBVIOUS
  <2>2. PICK quo \in 0 .. n - 1, r \in 0 .. m - 1 : quo = x \div m /\ r = x % m BY <2>1, PlaceIn
  <2>3. quo + 1 \in 1 .. n /\ r + 1 \in 1 .. m /\ (quo + 1) - 1 = quo /\ (r + 1) - 1 = r OBVIOUS
  <2>4. seqs[quo + 1][r + 1] = BuiltOperation(d, it, name, stream, quo, r) BY <1>2, <2>3
  <2> QED BY <1>1, <2>1, <2>2, <2>4 DEF InStreamAt
<1>9. Evenly(seqs, n, m) = [k \in 1 .. n * m |-> InStreamAt(d, it, name, stream, k - 1)] BY <1>8 DEF Evenly
<1> QED BY <1>5, <1>6, <1>7, <1>9

LEMMA PhaseOperationsAre ==
    ASSUME NEW d, Dims(d), NEW it \in Nat, NEW name \in {"store", "load"}
    PROVE  /\ PhaseOperations(d, it, name) = [k \in 1 .. InPhase(d) |-> InPhaseAt(d, it, name, k - 1)]
           /\ PhaseOperations(d, it, name) \in [1 .. InPhase(d) -> OperationsOf(d)]
<1>1. PICK n \in Nat \ {0} : n = d.streams BY DEF Dims
<1>2. PICK m \in Nat \ {0} : m = InStream(d) BY DimsAre
<1>3. n * m = InPhase(d) BY <1>1, <1>2, DimsAre
<1>4. PICK seqs : seqs = [stream \in 1 .. n |-> StreamOperations(d, it, name, stream - 1)] OBVIOUS
<1>5. ASSUME NEW s \in 1 .. n
      PROVE  /\ seqs[s] = [k \in 1 .. m |-> InStreamAt(d, it, name, s - 1, k - 1)]
             /\ seqs[s] \in [1 .. m -> OperationsOf(d)]
  <2>1. PICK t \in Nat : t = s - 1 OBVIOUS
  <2>2. seqs[s] = StreamOperations(d, it, name, t) BY <1>4, <2>1
  <2>3. /\ StreamOperations(d, it, name, t) = [k \in 1 .. InStream(d) |-> InStreamAt(d, it, name, t, k - 1)]
        /\ StreamOperations(d, it, name, t) \in [1 .. InStream(d) -> OperationsOf(d)]
    BY StreamOperationsAre
  <2> QED BY <1>2, <2>1, <2>2, <2>3
<1>6. seqs \in [1 .. n -> [1 .. m -> OperationsOf(d)]]
  <2>1. seqs = [s \in 1 .. n |-> seqs[s]] BY <1>4
  <2> QED BY <1>5, <2>1
<1>7. FlattenSeq(seqs) = Evenly(seqs, n, m) /\ FlattenSeq(seqs) \in [1 .. n * m -> OperationsOf(d)] BY <1>6, FlattenEven
<1>8. PhaseOperations(d, it, name) = FlattenSeq(seqs) BY <1>1, <1>4 DEF PhaseOperations
<1>9. ASSUME NEW k \in 1 .. n * m
      PROVE  seqs[((k - 1) \div m) + 1][((k - 1) % m) + 1] = InPhaseAt(d, it, name, k - 1)
  <2>1. PICK x \in Nat : x = k - 1 OBVIOUS
  <2>2. PICK quo \in 0 .. n - 1, r \in 0 .. m - 1 : quo = x \div m /\ r = x % m BY <2>1, PlaceIn
  <2>3. quo + 1 \in 1 .. n /\ r + 1 \in 1 .. m /\ (quo + 1) - 1 = quo /\ (r + 1) - 1 = r OBVIOUS
  <2>4. seqs[quo + 1] = [j \in 1 .. m |-> InStreamAt(d, it, name, quo, j - 1)] BY <1>5, <2>3
  <2>5. seqs[quo + 1][r + 1] = InStreamAt(d, it, name, quo, r) BY <2>3, <2>4
  <2> QED BY <1>2, <2>1, <2>2, <2>5 DEF InPhaseAt
<1>10. Evenly(seqs, n, m) = [k \in 1 .. n * m |-> InPhaseAt(d, it, name, k - 1)] BY <1>9 DEF Evenly
<1> QED BY <1>3, <1>7, <1>8, <1>10

\* What the generator builds, place by place.
LEMMA BuiltIs ==
    ASSUME NEW d, Dims(d)
    PROVE  build_kv_offload_intent(d) = [i \in 1 .. PassesOf(d) * (2 * InPhase(d)) |-> InIntentAt(d, i - 1)]
<1>1. PICK n \in Nat \ {0} : n = PassesOf(d) BY DimsAre
<1>2. PICK p \in Nat \ {0} : p = InPhase(d) BY DimsAre
<1>3. PICK m \in Nat \ {0} : m = 2 * p OBVIOUS
<1>4. PICK seqs : seqs = [it \in 1 .. n |-> PhaseOperations(d, it - 1, "store") \o PhaseOperations(d, it - 1, "load")] OBVIOUS
<1>5. ASSUME NEW i \in 1 .. n
      PROVE  /\ seqs[i] = [k \in 1 .. m |-> InPassAt(d, i - 1, k - 1)]
             /\ seqs[i] \in [1 .. m -> OperationsOf(d)]
  <2>1. PICK it \in Nat : it = i - 1 OBVIOUS
  <2>2. PICK s : s = PhaseOperations(d, it, "store") OBVIOUS
  <2>3. PICK t : t = PhaseOperations(d, it, "load") OBVIOUS
  <2>4. s = [k \in 1 .. p |-> InPhaseAt(d, it, "store", k - 1)] /\ s \in [1 .. p -> OperationsOf(d)]
    BY <1>2, <2>2, PhaseOperationsAre
  <2>5. t = [k \in 1 .. p |-> InPhaseAt(d, it, "load", k - 1)] /\ t \in [1 .. p -> OperationsOf(d)]
    BY <1>2, <2>3, PhaseOperationsAre
  <2>6. seqs[i] = s \o t BY <1>4, <2>1, <2>2, <2>3
  <2>7. OneAfterOther(s, t, p, p, OperationsOf(d)) BY <2>4, <2>5, ConcatIs
  <2>8. p + p = m BY <1>3
  <2>9. /\ seqs[i] = [k \in 1 .. m |-> IF k <= p THEN s[k] ELSE t[k - p]]
        /\ seqs[i] \in [1 .. m -> OperationsOf(d)]
    BY <2>6, <2>7, <2>8 DEF OneAfterOther
  <2>10. ASSUME NEW k \in 1 .. m PROVE (IF k <= p THEN s[k] ELSE t[k - p]) = InPassAt(d, it, k - 1)
    <3>1. CASE k <= p
      <4>1. k \in 1 .. p /\ k - 1 < p BY <3>1
      <4> QED BY <1>2, <2>4, <3>1, <4>1 DEF InPassAt
    <3>2. CASE ~(k <= p)
      <4>1. k - p \in 1 .. p /\ ~(k - 1 < p) /\ (k - p) - 1 = (k - 1) - p BY <1>3, <3>2
      <4> QED BY <1>2, <2>5, <3>2, <4>1 DEF InPassAt
    <3> QED BY <3>1, <3>2
  <2> QED BY <2>1, <2>9, <2>10
<1>6. seqs \in [1 .. n -> [1 .. m -> OperationsOf(d)]]
  <2>1. seqs = [s \in 1 .. n |-> seqs[s]] BY <1>4
  <2> QED BY <1>5, <2>1
<1>7. FlattenSeq(seqs) = Evenly(seqs, n, m) BY <1>6, FlattenEven
<1>8. build_kv_offload_intent(d) = FlattenSeq(seqs) BY <1>1, <1>4 DEF build_kv_offload_intent, PassesOf
<1>9. ASSUME NEW k \in 1 .. n * m
      PROVE  seqs[((k - 1) \div m) + 1][((k - 1) % m) + 1] = InIntentAt(d, k - 1)
  <2>1. PICK x \in Nat : x = k - 1 OBVIOUS
  <2>2. PICK quo \in 0 .. n - 1, r \in 0 .. m - 1 : quo = x \div m /\ r = x % m BY <2>1, PlaceIn
  <2>3. quo + 1 \in 1 .. n /\ r + 1 \in 1 .. m /\ (quo + 1) - 1 = quo /\ (r + 1) - 1 = r OBVIOUS
  <2>4. seqs[quo + 1] = [j \in 1 .. m |-> InPassAt(d, quo, j - 1)] BY <1>5, <2>3
  <2>5. seqs[quo + 1][r + 1] = InPassAt(d, quo, r) BY <2>3, <2>4
  <2> QED BY <1>2, <1>3, <2>1, <2>2, <2>5 DEF InIntentAt
<1>10. Evenly(seqs, n, m) = [k \in 1 .. n * m |-> InIntentAt(d, k - 1)] BY <1>9 DEF Evenly
<1> QED BY <1>1, <1>2, <1>3, <1>7, <1>8, <1>10

\* An operation's place: the pass, the half of it, the stream and the place
\* in the stream are its digits.
NameOf(h) == IF h = 0 THEN "store" ELSE "load"
PlaceOf(d, it, h, s, y) == ((it * 2 + h) * d.streams + s) * InStream(d) + y

LEMMA PlaceUnique ==
    ASSUME NEW d, Dims(d), NEW it \in Nat, NEW h \in 0 .. 1, NEW s \in 0 .. d.streams - 1, NEW y \in 0 .. InStream(d) - 1,
           NEW it2 \in Nat, NEW h2 \in 0 .. 1, NEW s2 \in 0 .. d.streams - 1, NEW y2 \in 0 .. InStream(d) - 1,
           PlaceOf(d, it, h, s, y) = PlaceOf(d, it2, h2, s2, y2)
    PROVE  it = it2 /\ h = h2 /\ s = s2 /\ y = y2
<1>1. PICK m \in Nat \ {0}, n \in Nat \ {0} : m = InStream(d) /\ n = d.streams BY DimsAre DEF Dims
<1>2. PICK a \in Nat, a2 \in Nat : a = it * 2 + h /\ a2 = it2 * 2 + h2 OBVIOUS
<1>3. PICK b \in Nat, b2 \in Nat : b = a * n + s /\ b2 = a2 * n + s2
  <2>1. a * n \in Nat /\ a2 * n \in Nat OBVIOUS
  <2> QED BY <1>1, <2>1
<1>4. b * m + y = b2 * m + y2 BY <1>1, <1>2, <1>3 DEF PlaceOf
<1>5. b = b2 /\ y = y2
  <2>1. (b * m + y) \div m = b /\ (b * m + y) % m = y BY <1>1, Quotient
  <2>2. (b2 * m + y2) \div m = b2 /\ (b2 * m + y2) % m = y2 BY <1>1, Quotient
  <2> QED BY <1>4, <2>1, <2>2
<1>6. a = a2 /\ s = s2
  <2>1. (a * n + s) \div n = a /\ (a * n + s) % n = s BY <1>1, Quotient
  <2>2. (a2 * n + s2) \div n = a2 /\ (a2 * n + s2) % n = s2 BY <1>1, Quotient
  <2> QED BY <1>3, <1>5, <2>1, <2>2
<1>7. it = it2 /\ h = h2 BY <1>2, <1>6
<1> QED BY <1>5, <1>6, <1>7

\* x is the place of the y-th operation of stream s in half h of pass it.
Lies(d, x, it, h, s, y) ==
    /\ it \in 0 .. PassesOf(d) - 1 /\ h \in 0 .. 1 /\ s \in 0 .. d.streams - 1 /\ y \in 0 .. InStream(d) - 1
    /\ x = PlaceOf(d, it, h, s, y) /\ InIntentAt(d, x) = InStreamAt(d, it, NameOf(h), s, y)
    /\ x \div (2 * InPhase(d)) = it /\ x % (2 * InPhase(d)) = h * InPhase(d) + (s * InStream(d) + y)
    /\ s * InStream(d) + y \in 0 .. InPhase(d) - 1

LEMMA HasPlace ==
    ASSUME NEW d, Dims(d), NEW i \in 1 .. PassesOf(d) * (2 * InPhase(d))
    PROVE  \E it, h, s, y : Lies(d, i - 1, it, h, s, y)
<1>1. PICK p \in Nat \ {0}, m \in Nat \ {0}, n \in Nat \ {0} : p = InPhase(d) /\ m = InStream(d) /\ n = d.streams /\ p = n * m
  BY DimsAre DEF Dims
<1>2. PICK z \in Nat \ {0}, t \in Nat \ {0} : z = 2 * p /\ t = PassesOf(d) BY DimsAre
<1>3. PICK x \in Nat : x = i - 1 OBVIOUS
<1>4. PICK it \in 0 .. t - 1, v \in 0 .. z - 1 : it = x \div z /\ v = x % z BY <1>1, <1>2, <1>3, PlaceIn
<1>5. x = z * it + v BY <1>4, Division
<1>6. PICK h \in 0 .. 1 : h = IF v < p THEN 0 ELSE 1 OBVIOUS
<1>7. PICK u \in 0 .. p - 1 : v = h * p + u /\ u = IF v < p THEN v ELSE v - p
  <2>1. CASE v < p BY <1>6, <2>1
  <2>2. CASE ~(v < p) BY <1>2, <1>6, <2>2
  <2> QED BY <2>1, <2>2
<1>8. PICK s \in 0 .. n - 1, y \in 0 .. m - 1 : s = u \div m /\ y = u % m
  <2>1. PICK k \in 1 .. n * m : u = k - 1
    <3>1. u + 1 \in 1 .. n * m /\ u = (u + 1) - 1 BY <1>1
    <3> QED BY <3>1
  <2> QED BY <2>1, PlaceIn
<1>9. u = s * m + y
  <2>1. u = m * s + y BY <1>8, Division
  <2>2. m * s = s * m OBVIOUS
  <2> QED BY <2>1, <2>2
<1>10. x = ((it * 2 + h) * n + s) * m + y
  <2>1. x = (2 * (n * m)) * it + (h * (n * m) + (s * m + y)) BY <1>1, <1>2, <1>5, <1>7, <1>9
  <2>2. (2 * (n * m)) * it + (h * (n * m) + (s * m + y)) = ((it * 2 + h) * n + s) * m + y OBVIOUS
  <2> QED BY <2>1, <2>2
<1>11. InIntentAt(d, x) = InPassAt(d, it, v) BY <1>1, <1>2, <1>4 DEF InIntentAt
<1>12. InPassAt(d, it, v) = InPhaseAt(d, it, NameOf(h), u)
  <2>1. CASE v < p
    <3>1. h = 0 /\ u = v BY <1>6, <1>7, <2>1
    <3> QED BY <1>1, <2>1, <3>1 DEF InPassAt, NameOf
  <2>2. CASE ~(v < p)
    <3>1. h = 1 /\ u = v - p BY <1>6, <1>7, <2>2
    <3> QED BY <1>1, <2>2, <3>1 DEF InPassAt, NameOf
  <2> QED BY <2>1, <2>2
<1>13. InPhaseAt(d, it, NameOf(h), u) = InStreamAt(d, it, NameOf(h), s, y) BY <1>1, <1>8 DEF InPhaseAt
<1>14. Lies(d, x, it, h, s, y)
  <2>1. x = PlaceOf(d, it, h, s, y) BY <1>1, <1>10 DEF PlaceOf
  <2>2. InIntentAt(d, x) = InStreamAt(d, it, NameOf(h), s, y) BY <1>11, <1>12, <1>13
  <2>3. x \div (2 * InPhase(d)) = it /\ x % (2 * InPhase(d)) = h * InPhase(d) + (s * InStream(d) + y)
    BY <1>1, <1>2, <1>4, <1>7, <1>9
  <2>4. s * InStream(d) + y \in 0 .. InPhase(d) - 1 BY <1>1, <1>7, <1>9
  <2>5. it \in 0 .. PassesOf(d) - 1 /\ s \in 0 .. d.streams - 1 /\ y \in 0 .. InStream(d) - 1 BY <1>1, <1>2
  <2> QED BY <2>1, <2>2, <2>3, <2>4, <2>5 DEF Lies
<1> QED BY <1>3, <1>14

\* The validator accepts what the generator builds.
LEMMA BuiltValidates ==
    ASSUME NEW d, Dims(d)
    PROVE  validate_intent(d, build_kv_offload_intent(d))
<1>1. PICK p \in Nat \ {0}, m \in Nat \ {0}, n \in Nat \ {0}, r \in Nat \ {0} :
        p = InPhase(d) /\ m = InStream(d) /\ n = d.streams /\ p = n * m /\ r = d.ranks
  BY DimsAre DEF Dims
<1>2. PICK total \in Nat : total = PassesOf(d) * (2 * p)
  <2>1. PICK t \in Nat \ {0} : t = PassesOf(d) BY DimsAre
  <2>2. t * (2 * p) \in Nat OBVIOUS
  <2> QED BY <2>1, <2>2
<1>3. PICK ops : ops = build_kv_offload_intent(d) OBVIOUS
<1>4. ops = [i \in 1 .. total |-> InIntentAt(d, i - 1)] BY <1>1, <1>2, <1>3, BuiltIs
<1>5. ASSUME NEW i \in 1 .. total PROVE ValidAt(d, ops[i], i - 1)
  <2>1. PICK x \in Nat : x = i - 1 OBVIOUS
  <2>2. PICK it, h, s, y : Lies(d, x, it, h, s, y) BY <1>1, <1>2, <2>1, HasPlace
  <2>3. it \in Nat /\ h \in 0 .. 1 /\ s \in 0 .. n - 1 /\ y \in 0 .. m - 1
    <3>1. PassesOf(d) \in Nat BY DimsAre
    <3> QED BY <1>1, <2>2, <3>1 DEF Lies
  <2>4. PICK u \in 0 .. p - 1 : u = s * m + y BY <1>1, <2>2 DEF Lies
  <2>5. u \div m = s /\ u % m = y BY <2>3, <2>4, Quotient
  <2>6. x \div (2 * p) = it /\ x % (2 * p) = h * p + u BY <1>1, <2>2, <2>4 DEF Lies
  <2>7. PICK v \in Nat : v = h * p + u
    <3>1. h * p + u \in Nat BY <2>3
    <3> QED BY <3>1
  <2>8. v % p = u
    <3>1. (h * p + u) % p = u BY <2>3, Quotient
    <3> QED BY <2>7, <3>1
  <2>9. NameOf(h) = IF v < p THEN "store" ELSE "load"
    <3>1. CASE h = 0 BY <2>7, <3>1 DEF NameOf
    <3>2. CASE h = 1 BY <2>7, <3>2 DEF NameOf
    <3> QED BY <2>3, <3>1, <3>2
  <2>10. PICK op : op = ops[i] OBVIOUS
  <2>11. op = BuiltOperation(d, it, NameOf(h), s, y \div r, y % r) BY <1>1, <1>4, <2>1, <2>2, <2>10 DEF Lies, InStreamAt
  <2>12. /\ op.phase = NameOf(h) /\ op.pass = it /\ op.stream = s /\ op.chunk_index = y \div r /\ op.kv_rank = y % r
         /\ op.stream_sequence = op.chunk_index * r + op.kv_rank
         /\ op.logical_object = ObjectName(op.pass, op.stream, op.chunk_index, op.kv_rank)
         /\ op.payload_bytes = d.payload /\ op.timed = (op.pass >= d.warmup)
    BY <1>1, <2>11 DEF BuiltOperation
  <2>13. x % (2 * p) = v BY <2>6, <2>7
  <2>14. d.chunks * d.ranks = m BY <1>1 DEF InStream
  <2>15. ValidAt(d, op, x)
    BY <1>1, <2>5, <2>6, <2>8, <2>9, <2>12, <2>13, <2>14 DEF ValidAt
  <2> QED BY <2>1, <2>10, <2>15
<1>6. Len(ops) = total /\ DOMAIN ops = 1 .. total BY <1>4
<1>7. (d.warmup + d.iters) * 2 * InPhase(d) = total
  <2>1. PICK t \in Nat : t = d.warmup + d.iters BY DEF Dims
  <2>2. t * 2 * p = t * (2 * p) OBVIOUS
  <2> QED BY <1>1, <1>2, <2>1, <2>2 DEF PassesOf
<1>8. (\A k \in {d.chunks, d.streams, d.iters, d.ranks, d.payload} : k > 0) /\ d.warmup >= 0 /\ d.metadata >= 0 BY DEF Dims
<1> QED BY <1>3, <1>5, <1>6, <1>7, <1>8 DEF validate_intent

HalfOf(name) == IF name = "load" THEN 1 ELSE 0
\* The k-th operation of a stream in a phase, and where the phase's begin.
Begins(d, it, name, s) == PlaceOf(d, it, HalfOf(name), s, 0)
Nth(d, it, name, s, k) ==
    [pass |-> it, stream |-> s, chunk_index |-> (k - 1) \div d.ranks, kv_rank |-> (k - 1) % d.ranks,
     sequence |-> Begins(d, it, name, s) + k - 1]

LEMMA BeginsAt ==
    ASSUME NEW d, Dims(d), NEW it \in 0 .. PassesOf(d) - 1, NEW name \in {"store", "load"}, NEW s \in 0 .. d.streams - 1
    PROVE  /\ HalfOf(name) \in 0 .. 1 /\ NameOf(HalfOf(name)) = name
           /\ Begins(d, it, name, s) \in Nat
           /\ Begins(d, it, name, s) + InStream(d) <= PassesOf(d) * (2 * InPhase(d))
           /\ \A y \in 0 .. InStream(d) - 1 : PlaceOf(d, it, HalfOf(name), s, y) = Begins(d, it, name, s) + y
<1>1. PICK p \in Nat \ {0}, m \in Nat \ {0}, n \in Nat \ {0} : p = InPhase(d) /\ m = InStream(d) /\ n = d.streams /\ p = n * m
  BY DimsAre DEF Dims
<1>2. PICK t \in Nat \ {0} : t = PassesOf(d) BY DimsAre
<1>3. PICK h \in 0 .. 1 : h = HalfOf(name) BY DEF HalfOf
<1>4. NameOf(h) = name BY <1>3 DEF HalfOf, NameOf
<1>5. PICK lo \in Nat : lo = ((it * 2 + h) * n + s) * m
  <2>1. PICK a \in Nat : a = it * 2 + h OBVIOUS
  <2>2. PICK b \in Nat : b = a * n + s
    <3>1. a * n \in Nat OBVIOUS
    <3> QED BY <1>1, <3>1
  <2>3. b * m \in Nat OBVIOUS
  <2> QED BY <2>1, <2>2, <2>3
<1>6. Begins(d, it, name, s) = lo BY <1>1, <1>3, <1>5 DEF Begins, PlaceOf
<1>7. \A y \in 0 .. m - 1 : PlaceOf(d, it, h, s, y) = lo + y BY <1>1, <1>5 DEF PlaceOf
<1>8. lo + m <= t * (2 * p)
  <2>1. PICK a \in Nat : t = it + 1 + a
    <3>1. t - it - 1 \in Nat /\ t = it + 1 + (t - it - 1) BY <1>2
    <3> QED BY <3>1
  <2>2. PICK b \in Nat : n = s + 1 + b
    <3>1. n - s - 1 \in Nat /\ n = s + 1 + (n - s - 1) BY <1>1
    <3> QED BY <3>1
  <2>3. PICK c \in Nat : 1 = h + c
    <3>1. 1 - h \in Nat /\ 1 = h + (1 - h) OBVIOUS
    <3> QED BY <3>1
  <2>4. t * (2 * p) = ((it * 2 + h) * n + s) * m + m + (b * m + c * (n * m) + a * (2 * (n * m)))
    <3>1. t * (2 * p) = (it + 1 + a) * (2 * (n * m)) BY <1>1, <2>1
    <3>2. (it + 1 + a) * (2 * (n * m)) = (it * 2) * (n * m) + (2 * (n * m)) + a * (2 * (n * m)) OBVIOUS
    <3>3. 2 * (n * m) = h * (n * m) + c * (n * m) + n * m BY <2>3
    <3>4. n * m = s * m + m + b * m BY <2>2
    <3>5. ((it * 2 + h) * n + s) * m = (it * 2) * (n * m) + h * (n * m) + s * m OBVIOUS
    <3>6. PICK nm \in Nat : nm = n * m
      <4>1. n * m \in Nat OBVIOUS
      <4> QED BY <4>1
    <3>7. PICK i2 \in Nat, hn \in Nat, cn \in Nat : i2 = (it * 2) * nm /\ hn = h * nm /\ cn = c * nm
      <4>1. (it * 2) * nm \in Nat /\ h * nm \in Nat /\ c * nm \in Nat OBVIOUS
      <4> QED BY <4>1
    <3>8. PICK an \in Nat, sm \in Nat, bm \in Nat : an = a * (2 * nm) /\ sm = s * m /\ bm = b * m
      <4>1. a * (2 * nm) \in Nat /\ s * m \in Nat /\ b * m \in Nat BY <1>1
      <4> QED BY <4>1
    <3>9. t * (2 * p) = i2 + 2 * nm + an BY <3>1, <3>2, <3>6, <3>7, <3>8
    <3>10. 2 * nm = hn + cn + nm /\ nm = sm + m + bm BY <3>3, <3>4, <3>6, <3>7, <3>8
    <3>11. ((it * 2 + h) * n + s) * m = i2 + hn + sm BY <3>5, <3>6, <3>7, <3>8
    <3>12. (b * m + c * (n * m) + a * (2 * (n * m))) = bm + cn + an BY <3>6, <3>7, <3>8
    <3> QED BY <3>9, <3>10, <3>11, <3>12
  <2>5. b * m + c * (n * m) + a * (2 * (n * m)) \in Nat
    <3>1. n * m \in Nat OBVIOUS
    <3>2. PICK nm \in Nat : nm = n * m BY <3>1
    <3>3. b * m \in Nat /\ c * nm \in Nat /\ a * (2 * nm) \in Nat OBVIOUS
    <3> QED BY <3>2, <3>3
  <2>6. PICK more \in Nat : more = b * m + c * (n * m) + a * (2 * (n * m)) BY <2>5
  <2>7. t * (2 * p) = lo + m + more BY <1>5, <2>4, <2>6
  <2> QED BY <2>7
<1> QED BY <1>1, <1>2, <1>3, <1>4, <1>6, <1>7, <1>8

\* An operation is one of the phase's and stream's exactly where they lie.
LEMMA OwnLies ==
    ASSUME NEW d, Dims(d), NEW it \in 0 .. PassesOf(d) - 1, NEW name \in {"store", "load"}, NEW s \in 0 .. d.streams - 1,
           NEW i \in 1 .. PassesOf(d) * (2 * InPhase(d)), NEW op, op = InIntentAt(d, i - 1),
           NEW lo \in Nat, lo = Begins(d, it, name, s)
    PROVE  /\ op.pass = it /\ op.phase = name /\ op.stream = s <=> i \in lo + 1 .. lo + InStream(d)
           /\ i \in lo + 1 .. lo + InStream(d) =>
                [pass |-> it, stream |-> s, chunk_index |-> op.chunk_index, kv_rank |-> op.kv_rank, sequence |-> i - 1]
                  = Nth(d, it, name, s, i - lo)
<1>1. PICK m \in Nat \ {0} : m = InStream(d) BY DimsAre
<1>2. PICK x \in Nat : x = i - 1 OBVIOUS
<1>3. PICK it2, h2, s2, y2 : Lies(d, x, it2, h2, s2, y2) BY <1>2, HasPlace
<1>4. PICK h \in 0 .. 1 : h = HalfOf(name) /\ NameOf(h) = name BY BeginsAt
<1>5. PassesOf(d) \in Nat BY DimsAre
<1>6. /\ it2 \in Nat /\ h2 \in 0 .. 1 /\ s2 \in 0 .. d.streams - 1 /\ y2 \in 0 .. m - 1 /\ x = PlaceOf(d, it2, h2, s2, y2)
      /\ op = BuiltOperation(d, it2, NameOf(h2), s2, y2 \div d.ranks, y2 % d.ranks)
  BY <1>1, <1>2, <1>3, <1>5 DEF Lies, InStreamAt
<1>7. /\ op.pass = it2 /\ op.phase = NameOf(h2) /\ op.stream = s2
      /\ op.chunk_index = y2 \div d.ranks /\ op.kv_rank = y2 % d.ranks
  BY <1>6 DEF BuiltOperation
<1>8. \A y \in 0 .. m - 1 : PlaceOf(d, it, h, s, y) = lo + y BY <1>1, <1>4, BeginsAt
<1>9. ASSUME op.pass = it, op.phase = name, op.stream = s PROVE i \in lo + 1 .. lo + m
  <2>1. it2 = it /\ s2 = s BY <1>7, <1>9
  <2>2. h2 = h BY <1>4, <1>6, <1>7, <1>9 DEF NameOf
  <2>3. x = lo + y2 BY <1>6, <1>8, <2>1, <2>2
  <2> QED BY <1>2, <1>6, <2>3
<1>10. ASSUME i \in lo + 1 .. lo + m PROVE it2 = it /\ h2 = h /\ s2 = s /\ y2 = (i - lo) - 1
  <2>1. PICK y \in 0 .. m - 1 : y = (i - lo) - 1 BY <1>10
  <2>2. x = PlaceOf(d, it, h, s, y) BY <1>2, <1>8, <2>1
  <2>3. it \in Nat BY <1>5
  <2>4. it = it2 /\ h = h2 /\ s = s2 /\ y = y2
    <3>1. PlaceOf(d, it, h, s, y) = PlaceOf(d, it2, h2, s2, y2) BY <1>6, <2>2
    <3>2. it2 \in Nat /\ h2 \in 0 .. 1 /\ s2 \in 0 .. d.streams - 1 /\ y2 \in 0 .. InStream(d) - 1 BY <1>1, <1>6
    <3>3. y \in 0 .. InStream(d) - 1 BY <1>1
    <3> QED BY <2>3, <3>1, <3>2, <3>3, PlaceUnique
  <2> QED BY <2>1, <2>4
<1>11. i \in lo + 1 .. lo + m => op.pass = it /\ op.phase = name /\ op.stream = s BY <1>4, <1>7, <1>10
<1>12. ASSUME i \in lo + 1 .. lo + m
       PROVE  [pass |-> it, stream |-> s, chunk_index |-> op.chunk_index, kv_rank |-> op.kv_rank, sequence |-> i - 1]
                = Nth(d, it, name, s, i - lo)
  <2>1. op.chunk_index = ((i - lo) - 1) \div d.ranks /\ op.kv_rank = ((i - lo) - 1) % d.ranks BY <1>7, <1>10, <1>12
  <2>2. lo + (i - lo) - 1 = i - 1 OBVIOUS
  <2> QED BY <2>1, <2>2 DEF Nth
<1> QED BY <1>1, <1>9, <1>11, <1>12

\* What a stream runs in a phase, with an intent or without.
LEMMA OperationsOfPhase ==
    ASSUME NEW o, Dims(o.dims), o.intent \in BOOLEAN,
           NEW it \in 0 .. PassesOf(o.dims) - 1, NEW name \in {"store", "load"}, NEW s \in 0 .. o.dims.streams - 1
    PROVE  phase_operations(o, it, name, s) = [k \in 1 .. InStream(o.dims) |-> Nth(o.dims, it, name, s, k)]
<1>1. PICK d : d = o.dims /\ Dims(d) OBVIOUS
<1>2. PICK m \in Nat \ {0}, r \in Nat \ {0} : m = InStream(d) /\ r = d.ranks BY <1>1, DimsAre DEF Dims
<1>3. PICK lo \in Nat : lo = Begins(d, it, name, s) BY <1>1, BeginsAt
<1>4. CASE ~o.intent
  <2>1. ASSUME NEW k \in 1 .. m
        PROVE  [pass |-> it, stream |-> s, chunk_index |-> (k - 1) \div r, kv_rank |-> (k - 1) % r,
                sequence |-> Sequence(o, it, name, s, (k - 1) \div r, (k - 1) % r)] = Nth(d, it, name, s, k)
    <3>1. PICK x \in Nat : x = k - 1 OBVIOUS
    <3>2. PICK chunk \in Nat, rank \in Nat : chunk = x \div r /\ rank = x % r /\ x = r * chunk + rank BY Division
    <3>3. Sequence(o, it, name, s, chunk, rank) = lo + x
      <4>1. PICK b : b = (it * 2 + HalfOf(name)) * d.streams + s OBVIOUS
      <4>2. b \in Nat
        <5>1. PICK h \in 0 .. 1, n \in Nat \ {0} : h = HalfOf(name) /\ n = d.streams BY <1>1 DEF HalfOf, Dims
        <5>2. PICK p \in Nat : p = it * 2 + h OBVIOUS
        <5>3. p * n \in Nat OBVIOUS
        <5> QED BY <1>1, <4>1, <5>1, <5>2, <5>3
      <4>3. PICK c \in Nat \ {0} : c = d.chunks BY <1>1 DEF Dims
      <4>4. Sequence(o, it, name, s, chunk, rank) = b * c * r + chunk * r + rank
        BY <1>1, <1>2, <4>1, <4>3 DEF Sequence, NStreams, HalfOf
      <4>5. lo = b * (c * r)
        <5>1. lo = b * m + 0 BY <1>1, <1>2, <1>3, <4>1 DEF Begins, PlaceOf
        <5>2. m = c * r BY <1>2, <4>3 DEF InStream
        <5>3. b * m \in Nat BY <4>2
        <5> QED BY <5>1, <5>2, <5>3
      <4>6. b * c * r = b * (c * r) /\ chunk * r = r * chunk BY <4>2
      <4>7. r * chunk \in Nat OBVIOUS
      <4> QED BY <3>2, <4>4, <4>5, <4>6, <4>7
    <3>4. lo + x = lo + k - 1 BY <3>1
    <3> QED BY <1>2, <1>3, <3>1, <3>2, <3>3, <3>4 DEF Nth
  <2>2. o.dims.chunks * o.dims.ranks = m BY <1>1, <1>2 DEF InStream
  <2>3. phase_operations(o, it, name, s)
          = [k \in 1 .. m |-> [pass |-> it, stream |-> s, chunk_index |-> (k - 1) \div r, kv_rank |-> (k - 1) % r,
                               sequence |-> Sequence(o, it, name, s, (k - 1) \div r, (k - 1) % r)]]
    BY <1>1, <1>2, <1>4, <2>2 DEF phase_operations
  <2> QED BY <1>1, <1>2, <2>1, <2>3
<1>5. CASE o.intent
  <2>1. PICK total \in Nat \ {0} : total = PassesOf(d) * (2 * InPhase(d))
    <3>1. PICK p \in Nat \ {0}, t \in Nat \ {0} : p = InPhase(d) /\ t = PassesOf(d) BY <1>1, DimsAre
    <3>2. t * (2 * p) \in Nat \ {0} OBVIOUS
    <3> QED BY <3>1, <3>2
  <2>2. PICK ops : ops = build_kv_offload_intent(d) OBVIOUS
  <2>3. ops = [i \in 1 .. total |-> InIntentAt(d, i - 1)] BY <1>1, <2>1, <2>2, BuiltIs
  <2> DEFINE Own(i) == ops[i].pass = it /\ ops[i].phase = name /\ ops[i].stream = s
             Id(i) == [pass |-> it, stream |-> s, chunk_index |-> ops[i].chunk_index, kv_rank |-> ops[i].kv_rank,
                       sequence |-> i - 1]
  <2>4. PICK seqs : seqs = [i \in 1 .. total |-> IF Own(i) THEN <<Id(i)>> ELSE <<>>] OBVIOUS
  <2>5. phase_operations(o, it, name, s) = FlattenSeq(seqs)
    <3>1. DOMAIN ops = 1 .. total BY <2>3
    <3> QED BY <1>1, <1>5, <2>2, <2>4, <3>1 DEF phase_operations
  <2>6. ASSUME NEW i \in 1 .. total
        PROVE  seqs[i] = IF i \in lo + 1 .. lo + m THEN <<Nth(d, it, name, s, i - lo)>> ELSE <<>>
    <3>1. PICK op : op = ops[i] /\ op = InIntentAt(d, i - 1) BY <2>3
    <3>2. /\ op.pass = it /\ op.phase = name /\ op.stream = s <=> i \in lo + 1 .. lo + m
          /\ i \in lo + 1 .. lo + m =>
               [pass |-> it, stream |-> s, chunk_index |-> op.chunk_index, kv_rank |-> op.kv_rank, sequence |-> i - 1]
                 = Nth(d, it, name, s, i - lo)
      BY <1>1, <1>2, <1>3, <2>1, <3>1, OwnLies
    <3>3. Own(i) <=> i \in lo + 1 .. lo + m BY <3>1, <3>2
    <3>4. i \in lo + 1 .. lo + m => Id(i) = Nth(d, it, name, s, i - lo) BY <3>1, <3>2
    <3>5. seqs[i] = IF Own(i) THEN <<Id(i)>> ELSE <<>> BY <2>4
    <3> HIDE DEF Own, Id
    <3> QED BY <3>3, <3>4, <3>5
  <2> HIDE DEF Own, Id
  <2>7. lo + m <= total BY <1>1, <1>2, <1>3, <2>1, BeginsAt
  <2> DEFINE Upto(i) == IF i <= lo THEN 0 ELSE IF i <= lo + m THEN i - lo ELSE m
             First(n) == [k \in 1 .. n |-> Nth(d, it, name, s, k)]
  <2>8. PICK V : V = {Nth(d, it, name, s, k) : k \in Nat} OBVIOUS
  <2>9. PICK w : w = [i \in 1 .. total |-> First(Upto(i))] OBVIOUS
  <2>10. \A i \in Nat : Upto(i) \in Nat OBVIOUS
  <2>11. \A n \in Nat : First(n) \in [1 .. n -> V] BY <2>8
  <2>12. w[1] = seqs[1]
    <3>1. w[1] = First(Upto(1)) BY <2>1, <2>9
    <3>2. seqs[1] = IF 1 \in lo + 1 .. lo + m THEN <<Nth(d, it, name, s, 1 - lo)>> ELSE <<>>
      <4>1. 1 \in 1 .. total OBVIOUS
      <4> HIDE DEF First, Upto
      <4> QED BY <2>6, <4>1
    <3>3. CASE lo = 0
      <4>1. Upto(1) = 1 /\ 1 \in lo + 1 .. lo + m /\ 1 - lo = 1 BY <3>3
      <4>2. First(1) = <<Nth(d, it, name, s, 1)>> OBVIOUS
      <4>3. seqs[1] = <<Nth(d, it, name, s, 1)>> BY <3>2, <4>1
      <4> HIDE DEF First, Upto
      <4> QED BY <3>1, <4>1, <4>2, <4>3
    <3>4. CASE lo # 0
      <4>1. Upto(1) = 0 /\ 1 \notin lo + 1 .. lo + m BY <3>4
      <4>2. First(0) = <<>> OBVIOUS
      <4>3. seqs[1] = <<>> BY <3>2, <4>1
      <4> HIDE DEF First, Upto
      <4> QED BY <3>1, <4>1, <4>2, <4>3
    <3> QED BY <3>3, <3>4
  <2>13. ASSUME NEW i \in 2 .. total PROVE w[i] = w[i - 1] \o seqs[i]
    <3>1. i \in 1 .. total /\ i - 1 \in 1 .. total OBVIOUS
    <3>2. w[i] = First(Upto(i)) /\ w[i - 1] = First(Upto(i - 1))
      <4> HIDE DEF First, Upto
      <4> QED BY <2>9, <3>1
    <3>3. CASE i \in lo + 1 .. lo + m
      <4>1. PICK n \in Nat : n = i - 1 - lo BY <3>3
      <4>2. Upto(i - 1) = n /\ Upto(i) = n + 1 /\ i - lo = n + 1 BY <3>3, <4>1
      <4>3. PICK a : a = First(n) OBVIOUS
      <4>4. a \in [1 .. n -> V] BY <2>11, <4>3
      <4>5. PICK b : b = <<Nth(d, it, name, s, n + 1)>> OBVIOUS
      <4>6. seqs[i] = b BY <2>6, <3>1, <3>3, <4>2, <4>5
      <4>7. b \in [1 .. 1 -> V] /\ b[1] = Nth(d, it, name, s, n + 1)
        <5>1. Nth(d, it, name, s, n + 1) \in V BY <2>8
        <5> QED BY <4>5, <5>1
      <4>8. OneAfterOther(a, b, n, 1, V) BY <4>4, <4>7, ConcatIs
      <4>9. a \o b = [k \in 1 .. (n + 1) |-> IF k <= n THEN a[k] ELSE b[k - n]] BY <4>8 DEF OneAfterOther
      <4>10. ASSUME NEW k \in 1 .. (n + 1) PROVE (IF k <= n THEN a[k] ELSE b[k - n]) = Nth(d, it, name, s, k)
        <5>1. CASE k <= n
          <6>1. k \in 1 .. n BY <5>1
          <6> QED BY <4>3, <5>1, <6>1
        <5>2. CASE ~(k <= n)
          <6>1. k = n + 1 /\ k - n = 1 BY <5>2
          <6> QED BY <4>7, <5>2, <6>1
        <5> QED BY <5>1, <5>2
      <4>11. a \o b = First(n + 1) BY <4>9, <4>10
      <4> HIDE DEF First, Upto
      <4> QED BY <3>2, <4>2, <4>3, <4>6, <4>11
    <3>4. CASE i \notin lo + 1 .. lo + m
      <4>1. Upto(i - 1) = Upto(i) BY <3>4
      <4>2. PICK n \in Nat : n = Upto(i) BY <2>10
      <4>3. PICK a : a = First(n) OBVIOUS
      <4>4. a \in [1 .. n -> V] BY <2>11, <4>3
      <4>5. seqs[i] = <<>> BY <2>6, <3>1, <3>4
      <4>6. a \in Seq(V) BY <4>4, SeqDef
      <4>7. a \o <<>> = a BY <4>6
      <4> HIDE DEF First, Upto
      <4> QED BY <3>2, <4>1, <4>2, <4>3, <4>5, <4>7
    <3> QED BY <3>3, <3>4
  <2>14. Flattens(w, seqs, total)
    <3> HIDE DEF First, Upto
    <3>1. w = [i \in 1 .. total |-> w[i]] BY <2>9
    <3> QED BY <2>12, <2>13, <3>1 DEF Flattens
  <2>15. Len(seqs) = total BY <2>4
  <2>16. FlattenSeq(seqs) = w[total]
    <3> HIDE DEF First, Upto
    <3> QED BY <2>14, <2>15, FlattenIs
  <2>17. Upto(total) = m BY <2>7
  <2>18. w[total] = First(m)
    <3> HIDE DEF First, Upto
    <3>1. total \in 1 .. total OBVIOUS
    <3> QED BY <2>9, <2>17, <3>1
  <2> QED BY <1>1, <1>2, <2>5, <2>16, <2>18
<1> QED BY <1>4, <1>5

LEMMA LinesAre ==
    ASSUME NEW o \in CommandLines
    PROVE  Dims(o.dims) /\ Mdts(o) \in Nat \ {0}
<1>1. Dims(o.dims)
  <2>1. /\ o.dims["chunks"] \in Nat \ {0} /\ o.dims["streams"] \in Nat \ {0} /\ o.dims["ranks"] \in Nat \ {0}
        /\ o.dims["iters"] \in Nat \ {0} /\ o.dims["payload"] \in Nat \ {0}
    BY DriverAssumption
  <2>2. o.dims.warmup \in Nat /\ o.dims.metadata \in Nat BY DriverAssumption
  <2> QED BY <2>1, <2>2 DEF Dims
<1>2. Mdts(o) \in Nat \ {0}
  <2>1. PICK a \in Nat \ {0}, b \in Nat \ {0}, c \in Nat \ {0} : a = o.hw_cap /\ b = o.max_segments /\ c = o.page BY DriverAssumption
  <2>2. PICK e \in Nat \ {0} : e = b * c
    <3>1. b * c \in Nat \ {0} OBVIOUS
    <3> QED BY <3>1
  <2>3. Min({a, e}) = IF a <= e THEN a ELSE e BY MinOfTwo
  <2>4. PageCap(o) \in Nat \ {0} BY <2>1, <2>2, <2>3 DEF PageCap
  <2>5. o.mdts_bytes \in Nat BY DriverAssumption
  <2> QED BY <2>4, <2>5 DEF Mdts
<1> QED BY <1>1, <1>2

\* The commands an operation is lowered to are as many as projected.
Ceil(n, unit) == (n + unit - 1) \div unit
Command(cut, op, i, k) ==
    [component |-> cut[k].component, offset |-> cut[k].offset, bytes |-> cut[k].bytes,
     logical_sequence |-> i, op |-> op.phase, command_index |-> k - 1]
LEMMA CommandsCount ==
    ASSUME NEW d, Dims(d), NEW op, op.payload_bytes = d.payload, NEW i, NEW unit \in Nat \ {0}
    PROVE  Len(Commands(d, op, i, unit)) = (IF op.phase = "store" THEN Ceil(d.metadata, unit) ELSE 0) + Ceil(d.payload, unit)
<1>1. PICK a \in Nat : a = Ceil(d.metadata, unit)
  <2>1. PICK x \in Nat : x = d.metadata + unit - 1 BY DEF Dims
  <2>2. x \div unit \in Nat BY Division
  <2> QED BY <2>1, <2>2 DEF Ceil
<1>2. PICK b \in Nat : b = Ceil(d.payload, unit)
  <2>1. PICK x \in Nat : x = d.payload + unit - 1 BY DEF Dims
  <2>2. x \div unit \in Nat BY Division
  <2> QED BY <2>1, <2>2 DEF Ceil
<1>3. PICK s : s = IF op.phase = "store" THEN Cut("metadata", d.metadata, unit) ELSE <<>> OBVIOUS
<1>4. PICK n \in Nat : n = IF op.phase = "store" THEN a ELSE 0 OBVIOUS
<1>5. s = [k \in 1 .. n |-> s[k]]
  <2>1. CASE op.phase = "store" BY <1>1, <1>3, <1>4, <2>1 DEF Cut, Ceil
  <2>2. CASE op.phase # "store" BY <1>3, <1>4, <2>2
  <2> QED BY <2>1, <2>2
<1>6. PICK t : t = Cut("payload", d.payload, unit) OBVIOUS
<1>7. t = [k \in 1 .. b |-> t[k]] BY <1>2, <1>6 DEF Cut, Ceil
<1>8. PICK V : V = {s[k] : k \in 1 .. n} \cup {t[k] : k \in 1 .. b} OBVIOUS
<1>9. s \in [1 .. n -> V] BY <1>5, <1>8
<1>10. t \in [1 .. b -> V] BY <1>7, <1>8
<1>11. OneAfterOther(s, t, n, b, V) BY <1>9, <1>10, ConcatIs
<1>12. PICK cut : cut = s \o t OBVIOUS
<1>13. DOMAIN cut = 1 .. (n + b) BY <1>11, <1>12 DEF OneAfterOther
<1>14. Commands(d, op, i, unit) = [k \in DOMAIN cut |-> Command(cut, op, i, k)]
  BY <1>3, <1>6, <1>12 DEF Commands, Command
<1>15. Commands(d, op, i, unit) = [k \in 1 .. (n + b) |-> Command(cut, op, i, k)]
  BY <1>13, <1>14
<1>16. Len(Commands(d, op, i, unit)) = n + b
  <2>1. Len([k \in 1 .. (n + b) |-> Command(cut, op, i, k)]) = n + b OBVIOUS
  <2> QED BY <1>15, <2>1
<1> QED BY <1>1, <1>2, <1>4, <1>16

\* The smallest of the limits given is one, and not above the first.
LEMMA EffectiveLimit ==
    ASSUME NEW a \in Nat \ {0}, NEW b \in Nat, NEW c \in Nat, NEW S, S = {a} \cup ({b, c} \ {0})
    PROVE  Min(S) \in Nat \ {0} /\ Min(S) <= a
<1>1. \E x \in S : \A y \in S : x <= y
  <2>1. CASE b # 0 /\ b <= a /\ (c = 0 \/ b <= c) BY <2>1
  <2>2. CASE c # 0 /\ c <= a /\ (b = 0 \/ c <= b) BY <2>2
  <2>3. CASE (b = 0 \/ a <= b) /\ (c = 0 \/ a <= c) BY <2>3
  <2> QED BY <2>1, <2>2, <2>3
<1>2. Min(S) \in S /\ \A y \in S : Min(S) <= y BY <1>1 DEF Min
<1> QED BY <1>2

\* Smaller commands are no fewer.
LEMMA CeilFalls ==
    ASSUME NEW n \in Nat, NEW e \in Nat \ {0}, NEW unit \in Nat \ {0}, e <= unit
    PROVE  Ceil(n, e) \in Nat /\ Ceil(n, unit) \in Nat /\ Ceil(n, e) >= Ceil(n, unit)
<1>1. PICK x \in Nat, y \in Nat : x = n + e - 1 /\ y = n + unit - 1 OBVIOUS
<1>2. PICK c \in Nat, r \in 0 .. e - 1 : c = x \div e /\ x = e * c + r BY Division
<1>3. PICK b \in Nat, q \in Nat : b = y \div unit /\ y = unit * b + q BY Division
<1>4. n <= e * c BY <1>1, <1>2
<1>5. e * c <= unit * c
  <2>1. PICK f \in Nat : unit = e + f OBVIOUS
  <2>2. unit * c = e * c + f * c /\ f * c >= 0 BY <2>1
  <2> QED BY <2>2
<1>6. unit * b <= n + unit - 1 BY <1>1, <1>3
<1>7. ASSUME b >= c + 1 PROVE FALSE
  <2>1. PICK g \in Nat : b = c + 1 + g BY <1>7
  <2>2. unit * b = unit * c + unit + unit * g /\ unit * g >= 0 BY <2>1
  <2>3. PICK u \in Nat, v \in Nat, w \in Nat : u = unit * c /\ v = unit * b /\ w = unit * g OBVIOUS
  <2>4. v = u + unit + w /\ n <= u /\ v <= n + unit - 1 BY <1>4, <1>5, <1>6, <2>2, <2>3
  <2> QED BY <2>4
<1> QED BY <1>1, <1>2, <1>3, <1>7 DEF Ceil

LEMMA ReplayRuns ==
    ASSUME opt \in CommandLines
    PROVE  ReplayIsTheRun
<1>1. PICK d : d = opt.dims /\ Dims(d) BY LinesAre
<1>2. PICK unit \in Nat \ {0} : unit = Mdts(opt) BY LinesAre
<1>3. PICK direct : direct = [opt EXCEPT !.intent = FALSE] OBVIOUS
<1>4. PICK replay : replay = [opt EXCEPT !.intent = TRUE] OBVIOUS
<1>5. {"intent", "dims"} \subseteq DOMAIN opt BY DriverAssumption
<1>6. direct.dims = d /\ direct.intent = FALSE /\ replay.dims = d /\ replay.intent = TRUE BY <1>1, <1>3, <1>4, <1>5
<1>7. ASSUME NEW it \in 0 .. opt.dims.warmup + opt.dims.iters - 1, NEW name \in {"store", "load"}, NEW s \in StreamIds(opt)
      PROVE  phase_operations(direct, it, name, s) = phase_operations(replay, it, name, s)
  <2>1. it \in 0 .. PassesOf(d) - 1 /\ s \in 0 .. d.streams - 1 BY <1>1 DEF PassesOf, StreamIds, NStreams, Dims
  <2>2. ASSUME NEW o, o.dims = d, o.intent \in BOOLEAN
        PROVE  phase_operations(o, it, name, s) = [k \in 1 .. InStream(d) |-> Nth(d, it, name, s, k)]
    <3>1. Dims(o.dims) /\ it \in 0 .. PassesOf(o.dims) - 1 /\ s \in 0 .. o.dims.streams - 1 BY <1>1, <2>1, <2>2
    <3>2. phase_operations(o, it, name, s) = [k \in 1 .. InStream(o.dims) |-> Nth(o.dims, it, name, s, k)]
      BY <2>2, <3>1, OperationsOfPhase
    <3> QED BY <2>2, <3>2
  <2> QED BY <1>6, <2>2
<1>8. PICK ops : ops = build_kv_offload_intent(opt.dims) OBVIOUS
<1>10. PICK e \in Nat \ {0} : e = Min(Limits(opt)) /\ e <= unit
  <2>1. opt.dma_ceiling_bytes \in Nat /\ opt.software_limit_bytes \in Nat BY DriverAssumption
  <2>2. Limits(opt) = {unit} \cup ({opt.dma_ceiling_bytes, opt.software_limit_bytes} \ {0}) BY <1>2 DEF Limits
  <2> QED BY <2>1, <2>2, EffectiveLimit
<1>9. ASSUME NEW i \in DOMAIN ops
      PROVE  LET projected == IF ops[i].phase = "store" THEN project(opt).store_cmds ELSE project(opt).load_cmds
                 lowered == Len(Commands(opt.dims, ops[i], i - 1, e))
             IN lowered >= projected /\ (e = unit => lowered = projected)
  <2>1. validate_intent(d, ops) BY <1>1, <1>8, BuiltValidates
  <2>2. PICK op : op = ops[i] OBVIOUS
  <2>3. op.payload_bytes = d.payload BY <2>1, <2>2 DEF validate_intent, ValidAt
  <2>4. Len(Commands(d, op, i - 1, e)) = (IF op.phase = "store" THEN Ceil(d.metadata, e) ELSE 0) + Ceil(d.payload, e)
    BY <1>1, <2>3, CommandsCount
  <2>5. ASSUME NEW n \in Nat PROVE Ceil(n, unit) \in Nat /\ Len(split_commands(n, unit, opt.block_align)) = Ceil(n, unit)
    <3>1. PICK x \in Nat : x = n + unit - 1 OBVIOUS
    <3>2. x \div unit \in Nat BY Division
    <3>3. PICK c \in Nat : c = Ceil(n, unit) BY <3>1, <3>2 DEF Ceil
    <3> DEFINE F(k) == ((Min({unit, n - (k - 1) * unit}) + opt.block_align - 1) \div opt.block_align) * opt.block_align
    <3>4. split_commands(n, unit, opt.block_align) = [k \in 1 .. c |-> F(k)] BY <3>3 DEF split_commands, Ceil
    <3> HIDE DEF F
    <3>5. Len([k \in 1 .. c |-> F(k)]) = c OBVIOUS
    <3> QED BY <3>3, <3>4, <3>5
  <2>6. d.payload \in Nat /\ d.metadata \in Nat BY <1>1 DEF Dims
  <2>7. /\ project(opt).store_cmds = Ceil(d.metadata, unit) + Ceil(d.payload, unit)
        /\ project(opt).load_cmds = Ceil(d.payload, unit)
    BY <1>1, <1>2, <2>5, <2>6 DEF project
  <2>8. /\ Ceil(d.payload, e) \in Nat /\ Ceil(d.payload, unit) \in Nat /\ Ceil(d.payload, e) >= Ceil(d.payload, unit)
        /\ Ceil(d.metadata, e) \in Nat /\ Ceil(d.metadata, unit) \in Nat /\ Ceil(d.metadata, e) >= Ceil(d.metadata, unit)
    BY <1>10, <2>6, CeilFalls
  <2>9. PICK lowered \in Nat : /\ lowered = Len(Commands(d, op, i - 1, e))
                              /\ lowered = (IF op.phase = "store" THEN Ceil(d.metadata, e) ELSE 0) + Ceil(d.payload, e)
    BY <2>4, <2>8
  <2> QED BY <1>1, <2>2, <2>7, <2>8, <2>9
<1> QED BY <1>2, <1>3, <1>4, <1>7, <1>8, <1>9, <1>10 DEF ReplayIsTheRun

\* An object's key says which it is.
LEMMA KeyUnique ==
    ASSUME NEW o, Dims(o.dims), NEW it \in Nat, NEW s \in StreamIds(o), NEW k \in 1 .. InStream(o.dims),
           NEW it2 \in Nat, NEW s2 \in StreamIds(o), NEW k2 \in 1 .. InStream(o.dims), ObjectKey(o, it, s, k) = ObjectKey(o, it2, s2, k2)
    PROVE  it = it2 /\ s = s2 /\ k = k2
<1>1. PICK c \in Nat \ {0}, r \in Nat \ {0}, n \in Nat \ {0} : c = o.dims.chunks /\ r = o.dims.ranks /\ n = o.dims.streams BY DEF Dims
<1>2. InStream(o.dims) = c * r /\ NStreams(o) = n /\ s \in 0 .. n - 1 /\ s2 \in 0 .. n - 1 BY <1>1 DEF InStream, NStreams, StreamIds
<1>3. PICK x \in Nat, x2 \in Nat : x = k - 1 /\ x2 = k2 - 1 OBVIOUS
<1>4. PICK ch \in 0 .. c - 1, rk \in 0 .. r - 1 : ch = x \div r /\ rk = x % r BY <1>2, <1>3, PlaceIn
<1>5. PICK ch2 \in 0 .. c - 1, rk2 \in 0 .. r - 1 : ch2 = x2 \div r /\ rk2 = x2 % r BY <1>2, <1>3, PlaceIn
<1>6. PICK a \in Nat, a2 \in Nat : a = it * n + s /\ a2 = it2 * n + s2
  <2>1. it * n \in Nat /\ it2 * n \in Nat OBVIOUS
  <2> QED BY <1>2, <2>1
<1>7. <<a * c + ch, rk>> = <<a2 * c + ch2, rk2>> BY <1>1, <1>2, <1>3, <1>4, <1>5, <1>6 DEF ObjectKey
<1>8. a * c + ch = a2 * c + ch2 /\ rk = rk2 BY <1>7
<1>9. a = a2 /\ ch = ch2
  <2>1. (a * c + ch) \div c = a /\ (a * c + ch) % c = ch BY Quotient
  <2>2. (a2 * c + ch2) \div c = a2 /\ (a2 * c + ch2) % c = ch2 BY Quotient
  <2> QED BY <1>8, <2>1, <2>2
<1>10. it = it2 /\ s = s2
  <2>1. (it * n + s) \div n = it /\ (it * n + s) % n = s BY <1>2, Quotient
  <2>2. (it2 * n + s2) \div n = it2 /\ (it2 * n + s2) % n = s2 BY <1>2, Quotient
  <2> QED BY <1>6, <1>9, <2>1, <2>2
<1>11. x = x2
  <2>1. x = r * ch + rk /\ x2 = r * ch2 + rk2 BY <1>4, <1>5, Division
  <2> QED BY <1>8, <1>9, <2>1
<1> QED BY <1>3, <1>10, <1>11

\* The operations done are finitely many; all of them when every stream is at
\* its end, none at the barrier, one more with each operation.
LEMMA DoneIs ==
    ASSUME NEW o, Dims(o.dims), NEW places \in [StreamIds(o) -> -1 .. InStream(o.dims)]
    PROVE  /\ IsFiniteSet(DoneOf(o, places)) /\ Cardinality(DoneOf(o, places)) \in Nat
           /\ (\A s \in StreamIds(o) : places[s] = InStream(o.dims)) => Cardinality(DoneOf(o, places)) = InPhase(o.dims)
           /\ (\A s \in StreamIds(o) : places[s] <= 0) => Cardinality(DoneOf(o, places)) = 0
<1>1. PICK n \in Nat \ {0}, m \in Nat \ {0} : n = o.dims.streams /\ m = InStream(o.dims) /\ InPhase(o.dims) = n * m BY DimsAre DEF Dims
<1>2. StreamIds(o) = 0 .. n - 1 BY <1>1 DEF StreamIds, NStreams
<1>3. IsFiniteSet(StreamIds(o)) /\ Cardinality(StreamIds(o)) = n
  <2>1. IsFiniteSet(0 .. n - 1) /\ Cardinality(0 .. n - 1) = IF 0 > n - 1 THEN 0 ELSE (n - 1) - 0 + 1 BY FS_Interval
  <2> QED BY <1>2, <2>1
<1>4. IsFiniteSet(1 .. m) /\ Cardinality(1 .. m) = m
  <2>1. IsFiniteSet(1 .. m) /\ Cardinality(1 .. m) = IF 1 > m THEN 0 ELSE m - 1 + 1 BY FS_Interval
  <2> QED BY <2>1
<1>5. PICK all : all = StreamIds(o) \X (1 .. m) OBVIOUS
<1>6. IsFiniteSet(all) /\ Cardinality(all) = n * m BY <1>3, <1>4, <1>5, FS_Product
<1>7. DoneOf(o, places) \subseteq all BY <1>1, <1>5 DEF DoneOf
<1>8. IsFiniteSet(DoneOf(o, places)) /\ Cardinality(DoneOf(o, places)) \in Nat BY <1>6, <1>7, FS_Subset, FS_CardinalityType
<1>9. ASSUME \A s \in StreamIds(o) : places[s] = InStream(o.dims) PROVE Cardinality(DoneOf(o, places)) = InPhase(o.dims)
  <2>1. DoneOf(o, places) = all BY <1>1, <1>5, <1>9 DEF DoneOf
  <2> QED BY <1>1, <1>6, <2>1
<1>10. ASSUME \A s \in StreamIds(o) : places[s] <= 0 PROVE Cardinality(DoneOf(o, places)) = 0
  <2>1. DoneOf(o, places) = {} BY <1>1, <1>10 DEF DoneOf
  <2> QED BY <2>1, FS_EmptySet
<1> QED BY <1>8, <1>9, <1>10

LEMMA DoneGrows ==
    ASSUME NEW o, Dims(o.dims), NEW places \in [StreamIds(o) -> -1 .. InStream(o.dims)], NEW s \in StreamIds(o),
           places[s] \in 0 .. InStream(o.dims) - 1
    PROVE  /\ [places EXCEPT ![s] = @ + 1] \in [StreamIds(o) -> -1 .. InStream(o.dims)]
           /\ Cardinality(DoneOf(o, [places EXCEPT ![s] = @ + 1])) = Cardinality(DoneOf(o, places)) + 1
<1>1. PICK m \in Nat \ {0} : m = InStream(o.dims) BY DimsAre
<1>2. PICK now : now = [places EXCEPT ![s] = @ + 1] OBVIOUS
<1>3. now \in [StreamIds(o) -> -1 .. m] /\ now[s] = places[s] + 1 /\ \A u \in StreamIds(o) : u # s => now[u] = places[u] BY <1>1, <1>2
<1>4. PICK k \in 1 .. m : k = places[s] + 1 BY <1>1
<1>5. PICK x : x = <<s, k>> OBVIOUS
<1>6. x \in StreamIds(o) \X (1 .. m) /\ x[1] = s /\ x[2] = k BY <1>5
<1>7. x \notin DoneOf(o, places)
  <2>1. ~(x[2] <= places[x[1]]) BY <1>1, <1>4, <1>6
  <2> QED BY <2>1 DEF DoneOf
<1>8. DoneOf(o, now) = DoneOf(o, places) \cup {x}
  <2>1. ASSUME NEW w \in StreamIds(o) \X (1 .. m) PROVE w[2] <= now[w[1]] <=> (w[2] <= places[w[1]] \/ w = x)
    <3>1. PICK u \in StreamIds(o), j \in 1 .. m : w = <<u, j>> /\ w[1] = u /\ w[2] = j OBVIOUS
    <3>2. CASE u = s
      <4>1. j <= now[u] <=> (j <= places[u] \/ j = k) BY <1>1, <1>3, <1>4, <3>2
      <4>2. w = x <=> j = k BY <1>5, <3>1, <3>2
      <4> QED BY <3>1, <4>1, <4>2
    <3>3. CASE u # s
      <4>1. now[u] = places[u] BY <1>3, <3>3
      <4>2. w # x BY <1>5, <3>1, <3>3
      <4> QED BY <3>1, <4>1, <4>2
    <3> QED BY <3>2, <3>3
  <2>2. x \in DoneOf(o, now) BY <1>1, <1>6, <2>1 DEF DoneOf
  <2> QED BY <1>1, <1>6, <2>1 DEF DoneOf
<1>9. IsFiniteSet(DoneOf(o, places)) BY DoneIs
<1>10. Cardinality(DoneOf(o, places) \cup {x}) = Cardinality(DoneOf(o, places)) + 1 BY <1>7, <1>9, FS_AddElement
<1> QED BY <1>1, <1>2, <1>3, <1>8, <1>10

\* What holds of the run at hand.
LEMMA RunIs ==
    ASSUME DriverInv
    PROVE  /\ opt \in CommandLines /\ Dims(opt.dims) /\ opt.intent \in BOOLEAN
           /\ InStream(opt.dims) \in Nat \ {0} /\ InPhase(opt.dims) \in Nat \ {0} /\ PassesOf(opt.dims) \in Nat \ {0}
           /\ opt.dims.warmup \in Nat /\ opt.dims.iters \in Nat /\ PassesOf(opt.dims) = opt.dims.warmup + opt.dims.iters
<1>1. opt \in CommandLines BY DEF DriverInv
<1>2. Dims(opt.dims) /\ opt.intent \in BOOLEAN BY <1>1, LinesAre, DriverAssumption
<1> QED BY <1>1, <1>2, DimsAre DEF Dims, PassesOf

LEMMA DriverStart == DriverInit => DriverInv
<1> SUFFICES ASSUME DriverInit PROVE DriverInv OBVIOUS
<1>1. tally \in [{"store", "load"} -> [failed : Nat, timed : Nat, warm : Nat]] /\ tally.store.timed = 0 /\ tally.store.warm = 0
  BY DEF DriverInit, NoTally
<1>2. IsFiniteSet(engine) /\ Cardinality(engine) = 0 BY FS_EmptySet DEF DriverInit
<1> QED BY <1>1, <1>2 DEF DriverInit, DriverInv, FinishedAccounts

\* The numbers one operation changes: f is how it went.
LEMMA TallyStep ==
    ASSUME DriverInv, NEW f \in {"failed", "timed", "warm"}, tally' = [tally EXCEPT ![phase][f] = @ + 1]
    PROVE  /\ tally' \in [{"store", "load"} -> [failed : Nat, timed : Nat, warm : Nat]]
           /\ \A p \in {"store", "load"}, g \in {"failed", "timed", "warm"} :
                tally'[p][g] = tally[p][g] + (IF p = phase /\ g = f THEN 1 ELSE 0)
           /\ \A p \in {"store", "load"} :
                tally'[p].failed + tally'[p].timed + tally'[p].warm
                  = Counted(p) + (IF p = phase THEN 1 ELSE 0)
<1>1. /\ phase \in {"store", "load"} /\ tally \in [{"store", "load"} -> [failed : Nat, timed : Nat, warm : Nat]] BY DEF DriverInv
<1>2. PICK row : row = [tally[phase] EXCEPT ![f] = @ + 1] OBVIOUS
<1>3. tally' = [tally EXCEPT ![phase] = row] BY <1>2
<1>4. tally[phase] \in [failed : Nat, timed : Nat, warm : Nat] BY <1>1
<1>5. row \in [failed : Nat, timed : Nat, warm : Nat] BY <1>2, <1>4
<1>6. \A g \in {"failed", "timed", "warm"} : row[g] = tally[phase][g] + (IF g = f THEN 1 ELSE 0) BY <1>2, <1>4
<1>7. tally' \in [{"store", "load"} -> [failed : Nat, timed : Nat, warm : Nat]] BY <1>1, <1>3, <1>5
<1>8. ASSUME NEW p \in {"store", "load"}, NEW g \in {"failed", "timed", "warm"}
      PROVE  tally'[p][g] = tally[p][g] + (IF p = phase /\ g = f THEN 1 ELSE 0)
  <2>1. CASE p = phase
    <3>1. tally'[p] = row BY <1>1, <1>3, <2>1
    <3> QED BY <1>6, <2>1, <3>1
  <2>2. CASE p # phase
    <3>1. tally'[p] = tally[p] BY <1>1, <1>3, <2>2
    <3>2. tally[p][g] \in Nat BY <1>1
    <3> QED BY <2>2, <3>1, <3>2
  <2> QED BY <2>1, <2>2
<1>9. ASSUME NEW p \in {"store", "load"}
      PROVE  tally'[p].failed + tally'[p].timed + tally'[p].warm = Counted(p) + (IF p = phase THEN 1 ELSE 0)
  <2>1. PICK a \in Nat, b \in Nat, c \in Nat : a = tally[p].failed /\ b = tally[p].timed /\ c = tally[p].warm BY <1>1
  <2>2. Counted(p) = a + b + c BY <2>1 DEF Counted
  <2>3. /\ tally'[p]["failed"] = a + (IF p = phase /\ "failed" = f THEN 1 ELSE 0)
        /\ tally'[p]["timed"] = b + (IF p = phase /\ "timed" = f THEN 1 ELSE 0)
        /\ tally'[p]["warm"] = c + (IF p = phase /\ "warm" = f THEN 1 ELSE 0)
    BY <1>8, <2>1
  <2> QED BY <2>2, <2>3
<1> QED BY <1>7, <1>8, <1>9

LEMMA OperateStep ==
    ASSUME DriverInv, NEW s \in StreamIds(opt), Operate(s)
    PROVE  DriverInv'
<1>1. /\ Dims(opt.dims) /\ opt.intent \in BOOLEAN /\ opt \in CommandLines
      /\ PassesOf(opt.dims) \in Nat \ {0} /\ opt.dims.warmup \in Nat
  BY RunIs
<1>2. PICK m \in Nat \ {0}, n \in Nat \ {0} : m = InStream(opt.dims) /\ n = InPhase(opt.dims) BY RunIs
<1>3. PICK mine : mine = phase_operations(opt, pass, phase, s) OBVIOUS
<1>4. PICK key : key = key_for_operation(opt, mine[at[s] + 1]) OBVIOUS
<1>5. /\ dstep = "run" /\ at[s] \in 0 .. Len(mine) - 1 /\ at' = [at EXCEPT ![s] = @ + 1]
      /\ UNCHANGED <<opt, dstep, pass, phase, manifest, status>>
  BY <1>3 DEF Operate
<1>6. /\ DriverCounts /\ pass < PassesOf(opt.dims) /\ phase \in {"store", "load"} /\ manifest \in {"none", "started"}
      /\ tally \in [{"store", "load"} -> [failed : Nat, timed : Nat, warm : Nat]]
      /\ IsFiniteSet(engine) /\ Cardinality(engine) = tally.store.timed + tally.store.warm
  BY <1>5 DEF DriverInv
<1>7. pass \in 0 .. PassesOf(opt.dims) - 1 /\ pass \in Nat /\ at \in [StreamIds(opt) -> -1 .. m] BY <1>1, <1>2, <1>6 DEF DriverCounts
<1>8. mine = [k \in 1 .. m |-> Nth(opt.dims, pass, phase, s, k)] /\ Len(mine) = m
  <2>1. s \in 0 .. opt.dims.streams - 1 BY DEF StreamIds, NStreams
  <2>2. phase_operations(opt, pass, phase, s) = [k \in 1 .. InStream(opt.dims) |-> Nth(opt.dims, pass, phase, s, k)]
    BY <1>1, <1>6, <1>7, <2>1, OperationsOfPhase
  <2>3. mine = [k \in 1 .. m |-> Nth(opt.dims, pass, phase, s, k)] BY <1>2, <1>3, <2>2
  <2> QED BY <2>3
<1>9. PICK k \in 1 .. m : k = at[s] + 1 BY <1>5, <1>8
<1>10. key = ObjectKey(opt, pass, s, k)
  <2>1. PICK op : op = mine[k] OBVIOUS
  <2>2. op = Nth(opt.dims, pass, phase, s, k) BY <1>8, <2>1
  <2>3. op.pass = pass /\ op.stream = s /\ op.chunk_index = (k - 1) \div opt.dims.ranks /\ op.kv_rank = (k - 1) % opt.dims.ranks
    BY <2>2 DEF Nth
  <2> QED BY <1>4, <1>9, <2>1, <2>3 DEF key_for_operation, ObjectKey
<1>11. PICK done \in Nat : done = Cardinality(DoneOf(opt, at)) BY <1>1, <1>2, <1>7, DoneIs
<1>12. at' \in [StreamIds(opt) -> -1 .. m] /\ Cardinality(DoneOf(opt, at')) = done + 1
  <2>1. at[s] \in 0 .. m - 1 BY <1>5, <1>8
  <2> QED BY <1>1, <1>2, <1>5, <1>7, <1>11, <2>1, DoneGrows
<1>13. PICK f \in {"failed", "timed", "warm"} :
         /\ tally' = [tally EXCEPT ![phase][f] = @ + 1]
         /\ f = "timed" => pass >= opt.dims.warmup
         /\ f = "warm" => pass < opt.dims.warmup
         /\ f = "failed" => engine' = engine
         /\ f # "failed" => engine' = engine \cup {key} /\ (phase = "load" => key \in engine)
  <2> DEFINE can == IF phase = "store" THEN key \in engine \/ Cardinality(engine) < Slots ELSE key \in engine
  <2>1. \/ /\ can /\ tally' = [tally EXCEPT ![phase][IF pass >= opt.dims.warmup THEN "timed" ELSE "warm"] = @ + 1]
           /\ engine' = engine \cup {key}
        \/ tally' = [tally EXCEPT ![phase]["failed"] = @ + 1] /\ engine' = engine
    BY <1>3, <1>4 DEF Operate
  <2>2. CASE tally' = [tally EXCEPT ![phase]["failed"] = @ + 1] /\ engine' = engine BY <2>2
  <2>3. CASE /\ can /\ tally' = [tally EXCEPT ![phase][IF pass >= opt.dims.warmup THEN "timed" ELSE "warm"] = @ + 1]
             /\ engine' = engine \cup {key}
    <3>1. phase = "load" => key \in engine BY <2>3
    <3>2. CASE pass >= opt.dims.warmup
      <4>1. tally' = [tally EXCEPT ![phase]["timed"] = @ + 1] BY <2>3, <3>2
      <4> QED BY <2>3, <3>1, <3>2, <4>1
    <3>3. CASE ~(pass >= opt.dims.warmup)
      <4>1. tally' = [tally EXCEPT ![phase]["warm"] = @ + 1] BY <2>3, <3>3
      <4>2. pass < opt.dims.warmup BY <1>1, <1>7, <3>3
      <4> QED BY <2>3, <3>1, <4>1, <4>2
    <3> QED BY <3>2, <3>3
  <2> QED BY <2>1, <2>2, <2>3
<1>14. /\ tally' \in [{"store", "load"} -> [failed : Nat, timed : Nat, warm : Nat]]
       /\ \A p \in {"store", "load"}, g \in {"failed", "timed", "warm"} :
            tally'[p][g] = tally[p][g] + (IF p = phase /\ g = f THEN 1 ELSE 0)
       /\ \A p \in {"store", "load"} : tally'[p].failed + tally'[p].timed + tally'[p].warm = Counted(p) + (IF p = phase THEN 1 ELSE 0)
  BY <1>13, TallyStep
<1>15. PICK timed \in Nat, warm \in Nat : timed = tally.store.timed /\ warm = tally.store.warm BY <1>6
<1>16. /\ tally'.store.timed = timed + (IF "store" = phase /\ "timed" = f THEN 1 ELSE 0)
       /\ tally'.store.warm = warm + (IF "store" = phase /\ "warm" = f THEN 1 ELSE 0)
  BY <1>14, <1>15
<1>17. \A u \in engine : \E it \in 0 .. pass, s2 \in StreamIds(opt), k2 \in 1 .. m :
         u = ObjectKey(opt, it, s2, k2) /\ (it < pass \/ phase = "load" \/ k2 <= at[s2])
  BY <1>2, <1>6 DEF DriverCounts
<1>18. phase = "store" => key \notin engine
  <2> SUFFICES ASSUME phase = "store", key \in engine PROVE FALSE OBVIOUS
  <2>1. PICK it \in 0 .. pass, s2 \in StreamIds(opt), k2 \in 1 .. m :
          key = ObjectKey(opt, it, s2, k2) /\ (it < pass \/ phase = "load" \/ k2 <= at[s2])
    BY <1>17
  <2>2. ObjectKey(opt, pass, s, k) = ObjectKey(opt, it, s2, k2) BY <1>10, <2>1
  <2>3. it \in Nat BY <1>7
  <2>4. pass = it /\ s = s2 /\ k = k2 BY <1>1, <1>2, <1>7, <2>2, <2>3, KeyUnique
  <2> QED BY <1>7, <1>9, <2>1, <2>4
<1>19. IsFiniteSet(engine') /\ Cardinality(engine') = tally'.store.timed + tally'.store.warm
  <2>1. CASE f = "failed" BY <1>6, <1>13, <1>15, <1>16, <2>1
  <2>2. CASE f # "failed" /\ phase = "load"
    <3>1. engine' = engine BY <1>13, <2>2
    <3> QED BY <1>6, <1>15, <1>16, <2>2, <3>1
  <2>3. CASE f # "failed" /\ phase = "store"
    <3>1. engine' = engine \cup {key} /\ key \notin engine BY <1>13, <1>18, <2>3
    <3>2. IsFiniteSet(engine') /\ Cardinality(engine') = Cardinality(engine) + 1 BY <1>6, <3>1, FS_AddElement
    <3>3. f \in {"timed", "warm"} BY <2>3
    <3> QED BY <1>6, <1>15, <1>16, <2>3, <3>2, <3>3
  <2> QED BY <1>6, <2>1, <2>2, <2>3
<1>20. \A u \in engine' : \E it \in 0 .. pass, s2 \in StreamIds(opt), k2 \in 1 .. m :
         u = ObjectKey(opt, it, s2, k2) /\ (it < pass \/ phase = "load" \/ k2 <= at'[s2])
  <2> SUFFICES ASSUME NEW u \in engine'
               PROVE  \E it \in 0 .. pass, s2 \in StreamIds(opt), k2 \in 1 .. m :
                        u = ObjectKey(opt, it, s2, k2) /\ (it < pass \/ phase = "load" \/ k2 <= at'[s2])
    OBVIOUS
  <2>1. u \in engine \/ u = key BY <1>13
  <2>2. CASE u \in engine
    <3>1. PICK it \in 0 .. pass, s2 \in StreamIds(opt), k2 \in 1 .. m :
            u = ObjectKey(opt, it, s2, k2) /\ (it < pass \/ phase = "load" \/ k2 <= at[s2])
      BY <1>17, <2>2
    <3>2. k2 <= at[s2] => k2 <= at'[s2] BY <1>5, <1>7
    <3> QED BY <3>1, <3>2
  <2>3. CASE u = key
    <3>1. k <= at'[s] BY <1>5, <1>7, <1>9
    <3>2. pass \in 0 .. pass BY <1>7
    <3> QED BY <1>10, <2>3, <3>1, <3>2
  <2> QED BY <2>1, <2>2, <2>3
<1>21. /\ Counted("store") = IF phase = "store" THEN pass * n + done ELSE (pass + 1) * n
       /\ Counted("load") = IF phase = "store" THEN pass * n ELSE pass * n + done
       /\ pass < opt.dims.warmup => timed = 0
       /\ pass >= opt.dims.warmup => /\ warm <= opt.dims.warmup * n
                                     /\ timed <= (pass - opt.dims.warmup) * n + (IF phase = "store" THEN done ELSE n)
  BY <1>2, <1>6, <1>11, <1>15 DEF DriverCounts
<1>22. /\ Counted("store")' = Counted("store") + (IF phase = "store" THEN 1 ELSE 0)
       /\ Counted("load")' = Counted("load") + (IF phase = "load" THEN 1 ELSE 0)
  BY <1>14 DEF Counted
<1>23. pass * n \in Nat /\ (pass + 1) * n \in Nat BY <1>7
<1>24. /\ Counted("store")' = IF phase = "store" THEN pass * n + (done + 1) ELSE (pass + 1) * n
       /\ Counted("load")' = IF phase = "store" THEN pass * n ELSE pass * n + (done + 1)
  <2>1. PICK a \in Nat, b \in Nat : a = pass * n /\ b = (pass + 1) * n BY <1>23
  <2> QED BY <1>6, <1>21, <1>22, <2>1
<1>25. /\ pass < opt.dims.warmup => tally'.store.timed = 0
       /\ pass >= opt.dims.warmup => /\ tally'.store.warm <= opt.dims.warmup * n
                                     /\ tally'.store.timed <= (pass - opt.dims.warmup) * n + (IF phase = "store" THEN done + 1 ELSE n)
  <2>1. CASE pass < opt.dims.warmup
    <3>1. f # "timed" /\ ~(pass >= opt.dims.warmup) BY <1>1, <1>7, <1>13, <2>1
    <3> QED BY <1>16, <1>21, <2>1, <3>1
  <2>2. CASE pass >= opt.dims.warmup
    <3>1. f # "warm" /\ ~(pass < opt.dims.warmup) BY <1>1, <1>7, <1>13, <2>2
    <3>2. PICK a \in Nat : a = (pass - opt.dims.warmup) * n
      <4>1. PICK c \in Nat : c = pass - opt.dims.warmup BY <1>1, <1>7, <2>2
      <4>2. c * n \in Nat OBVIOUS
      <4> QED BY <4>1, <4>2
    <3>3. tally'.store.warm = warm BY <1>16, <3>1
    <3>4. warm <= opt.dims.warmup * n /\ timed <= a + (IF phase = "store" THEN done ELSE n) BY <1>21, <2>2, <3>2
    <3>5. tally'.store.timed <= a + (IF phase = "store" THEN done + 1 ELSE n) BY <1>16, <3>4
    <3> QED BY <3>1, <3>2, <3>3, <3>4, <3>5
  <2> QED BY <1>1, <1>7, <2>1, <2>2
<1>26. DriverCounts'
  <2>1. at' \in [StreamIds(opt) -> -1 .. m] /\ pass \in 0 .. PassesOf(opt.dims) BY <1>1, <1>7, <1>12
  <2>2. opt' = opt /\ pass' = pass /\ phase' = phase BY <1>5
  <2>3. \A u \in engine' : \E it \in 0 .. pass', s2 \in StreamIds(opt'), k2 \in 1 .. InStream(opt'.dims) :
          u = ObjectKey(opt', it, s2, k2) /\ (it < pass' \/ phase' = "load" \/ k2 <= at'[s2])
    BY <1>2, <1>20, <2>2
  <2>4. at' \in [StreamIds(opt') -> -1 .. InStream(opt'.dims)] /\ pass' \in 0 .. PassesOf(opt'.dims) BY <1>2, <2>1, <2>2
  <2>5. /\ Counted("store")' = IF phase' = "store" THEN pass' * InPhase(opt'.dims) + Cardinality(DoneOf(opt', at'))
                             ELSE (pass' + 1) * InPhase(opt'.dims)
        /\ Counted("load")' = IF phase' = "store" THEN pass' * InPhase(opt'.dims)
                            ELSE pass' * InPhase(opt'.dims) + Cardinality(DoneOf(opt', at'))
    BY <1>2, <1>12, <1>24, <2>2
  <2>6. /\ pass' < opt'.dims.warmup => tally'.store.timed = 0
        /\ pass' >= opt'.dims.warmup =>
             /\ tally'.store.warm <= opt'.dims.warmup * InPhase(opt'.dims)
             /\ tally'.store.timed <= (pass' - opt'.dims.warmup) * InPhase(opt'.dims)
                                        + (IF phase' = "store" THEN Cardinality(DoneOf(opt', at')) ELSE InPhase(opt'.dims))
    BY <1>2, <1>12, <1>25, <2>2
  <2> QED BY <2>3, <2>4, <2>5, <2>6 DEF DriverCounts
<1>27. FinishedAccounts' BY <1>5, <1>6 DEF FinishedAccounts
<1> QED BY <1>1, <1>5, <1>6, <1>14, <1>19, <1>26, <1>27 DEF DriverInv

\* The streams at the barrier, or let through it.
LEMMA NoneDone ==
    ASSUME DriverInv, NEW places, places = [s \in StreamIds(opt) |-> -1] \/ places = [s \in StreamIds(opt) |-> 0]
    PROVE  /\ places \in [StreamIds(opt) -> -1 .. InStream(opt.dims)]
           /\ Cardinality(DoneOf(opt, places)) = 0 /\ \A s \in StreamIds(opt) : places[s] <= 0
<1>1. Dims(opt.dims) /\ InStream(opt.dims) \in Nat \ {0} BY RunIs
<1>2. -1 \in -1 .. InStream(opt.dims) /\ 0 \in -1 .. InStream(opt.dims) BY <1>1
<1>3. places \in [StreamIds(opt) -> -1 .. InStream(opt.dims)] /\ \A s \in StreamIds(opt) : places[s] <= 0 BY <1>2
<1> QED BY <1>1, <1>3, DoneIs

\* The counts at the barrier.
LEMMA BarrierCounts ==
    ASSUME DriverInv, opt' = opt, Cardinality(DoneOf(opt, at')) = 0, at' \in [StreamIds(opt) -> -1 .. InStream(opt.dims)],
           pass' \in 0 .. PassesOf(opt.dims), phase' \in {"store", "load"}, tally' = tally, engine' = engine,
           NEW n \in Nat \ {0}, n = InPhase(opt.dims),
           Counted("store") = IF phase' = "store" THEN pass' * n ELSE (pass' + 1) * n, Counted("load") = pass' * n,
           pass' < opt.dims.warmup => tally.store.timed = 0,
           pass' >= opt.dims.warmup => /\ tally.store.warm <= opt.dims.warmup * n
                                       /\ tally.store.timed <= (pass' - opt.dims.warmup) * n + (IF phase' = "store" THEN 0 ELSE n),
           \A u \in engine : \E it \in 0 .. pass', s \in StreamIds(opt), k \in 1 .. InStream(opt.dims) :
             u = ObjectKey(opt, it, s, k) /\ (it < pass' \/ phase' = "load" \/ k <= at'[s])
    PROVE  DriverCounts'
<1>1. \A u \in engine' : \E it \in 0 .. pass', s2 \in StreamIds(opt'), k2 \in 1 .. InStream(opt'.dims) :
        u = ObjectKey(opt', it, s2, k2) /\ (it < pass' \/ phase' = "load" \/ k2 <= at'[s2])
  OBVIOUS
<1>2. at' \in [StreamIds(opt') -> -1 .. InStream(opt'.dims)] /\ pass' \in 0 .. PassesOf(opt'.dims) OBVIOUS
<1>3. Counted("store")' = Counted("store") /\ Counted("load")' = Counted("load") BY DEF Counted
<1>4. pass' * n \in Nat /\ pass' * n + 0 = pass' * n
  <2>1. PICK c \in Nat : c = pass' BY RunIs
  <2>2. c * n \in Nat OBVIOUS
  <2> QED BY <2>1, <2>2
<1>5. /\ Counted("store")' = IF phase' = "store" THEN pass' * InPhase(opt'.dims) + Cardinality(DoneOf(opt', at'))
                           ELSE (pass' + 1) * InPhase(opt'.dims)
      /\ Counted("load")' = IF phase' = "store" THEN pass' * InPhase(opt'.dims)
                          ELSE pass' * InPhase(opt'.dims) + Cardinality(DoneOf(opt', at'))
  BY <1>3, <1>4
<1>6. /\ pass' < opt'.dims.warmup => tally'.store.timed = 0
      /\ pass' >= opt'.dims.warmup =>
           /\ tally'.store.warm <= opt'.dims.warmup * InPhase(opt'.dims)
           /\ tally'.store.timed <= (pass' - opt'.dims.warmup) * InPhase(opt'.dims)
                                      + (IF phase' = "store" THEN Cardinality(DoneOf(opt', at')) ELSE InPhase(opt'.dims))
  OBVIOUS
<1> QED BY <1>1, <1>2, <1>5, <1>6 DEF DriverCounts

LEMMA SetupStep ==
    ASSUME DriverInv, Setup
    PROVE  DriverInv'
<1>1. /\ dstep = "setup" /\ UNCHANGED <<opt, pass, phase, engine, tally, manifest>>
      /\ pass = 0 /\ phase = "store" /\ tally = NoTally /\ engine = {} /\ manifest \in {"none", "started"}
  BY DEF Setup, DriverInv
<1>2. \/ dstep' = "exited"
      \/ dstep' \in {"gate", "run"} /\ at' = AtBarrier
  BY DEF Setup, Exit
<1>3. FinishedAccounts' BY <1>1 DEF FinishedAccounts
<1>4. /\ opt \in CommandLines /\ tally \in [{"store", "load"} -> [failed : Nat, timed : Nat, warm : Nat]]
      /\ IsFiniteSet(engine) /\ Cardinality(engine) = tally.store.timed + tally.store.warm
  BY DEF DriverInv
<1>5. CASE dstep' = "exited" BY <1>1, <1>3, <1>4, <1>5 DEF DriverInv
<1>6. CASE dstep' \in {"gate", "run"} /\ at' = AtBarrier
  <2>1. PICK n \in Nat \ {0} : n = InPhase(opt.dims) BY RunIs
  <2>2. PICK places : places = [s \in StreamIds(opt) |-> -1] OBVIOUS
  <2>3. at' = places BY <1>6, <2>2 DEF AtBarrier
  <2>4. Cardinality(DoneOf(opt, places)) = 0 /\ places \in [StreamIds(opt) -> -1 .. InStream(opt.dims)] BY <2>2, NoneDone
  <2>5. Counted("store") = 0 /\ Counted("load") = 0 /\ tally.store.timed = 0 /\ tally.store.warm = 0 BY <1>1 DEF Counted, NoTally
  <2>6. pass' = 0 /\ 0 * n = 0 /\ 0 \in 0 .. PassesOf(opt.dims) /\ 0 < PassesOf(opt.dims)
    <3>1. PassesOf(opt.dims) \in Nat \ {0} BY RunIs
    <3> QED BY <1>1, <3>1
  <2>7. /\ pass' < opt.dims.warmup => tally.store.timed = 0
        /\ pass' >= opt.dims.warmup => /\ tally.store.warm <= opt.dims.warmup * n
                                       /\ tally.store.timed <= (pass' - opt.dims.warmup) * n + (IF phase' = "store" THEN 0 ELSE n)
    <3>1. opt.dims.warmup \in Nat BY RunIs
    <3>2. pass' >= opt.dims.warmup => opt.dims.warmup = 0 BY <2>6, <3>1
    <3>3. (0 - 0) * n = 0 OBVIOUS
    <3>4. phase' = "store" BY <1>1
    <3> QED BY <2>5, <2>6, <3>2, <3>3, <3>4
  <2>8. DriverCounts'
    <3>1. Counted("store") = IF phase' = "store" THEN pass' * n ELSE (pass' + 1) * n BY <1>1, <2>5, <2>6
    <3>2. Counted("load") = pass' * n BY <2>5, <2>6
    <3>3. \A u \in engine : \E it \in 0 .. pass', s \in StreamIds(opt), k \in 1 .. InStream(opt.dims) :
            u = ObjectKey(opt, it, s, k) /\ (it < pass' \/ phase' = "load" \/ k <= at'[s])
      BY <1>1
    <3>4. Cardinality(DoneOf(opt, at')) = 0 /\ at' \in [StreamIds(opt) -> -1 .. InStream(opt.dims)] BY <2>3, <2>4
    <3>5. opt' = opt /\ pass' \in 0 .. PassesOf(opt.dims) /\ phase' \in {"store", "load"} /\ tally' = tally /\ engine' = engine
      BY <1>1, <2>6
    <3> QED BY <2>1, <2>7, <3>1, <3>2, <3>3, <3>4, <3>5, BarrierCounts
  <2>9. pass' < PassesOf(opt'.dims) BY <1>1, <2>6
  <2> QED BY <1>1, <1>3, <1>4, <1>6, <2>8, <2>9 DEF DriverInv
<1> QED BY <1>2, <1>5, <1>6

LEMMA OpensStep ==
    ASSUME DriverInv, BarrierOpens
    PROVE  DriverInv'
<1>1. /\ dstep = "run" /\ UNCHANGED <<opt, dstep, pass, phase, engine, tally, manifest, status>>
      /\ at' = [s \in StreamIds(opt) |-> 0] /\ \A s \in StreamIds(opt) : at[s] = -1
  BY DEF BarrierOpens
<1>2. /\ opt \in CommandLines /\ tally \in [{"store", "load"} -> [failed : Nat, timed : Nat, warm : Nat]]
      /\ IsFiniteSet(engine) /\ Cardinality(engine) = tally.store.timed + tally.store.warm
      /\ DriverCounts /\ pass < PassesOf(opt.dims) /\ phase \in {"store", "load"} /\ manifest \in {"none", "started"}
  BY <1>1 DEF DriverInv
<1>3. PICK n \in Nat \ {0} : n = InPhase(opt.dims) BY RunIs
<1>4. Cardinality(DoneOf(opt, at')) = 0 /\ at' \in [StreamIds(opt) -> -1 .. InStream(opt.dims)]
  <2>1. PICK places : places = [s \in StreamIds(opt) |-> 0] OBVIOUS
  <2>2. Cardinality(DoneOf(opt, places)) = 0 /\ places \in [StreamIds(opt) -> -1 .. InStream(opt.dims)] BY <2>1, NoneDone
  <2> QED BY <1>1, <2>1, <2>2
<1>5. Cardinality(DoneOf(opt, at)) = 0
  <2>1. at \in [StreamIds(opt) -> -1 .. InStream(opt.dims)] BY <1>2 DEF DriverCounts
  <2>2. \A s \in StreamIds(opt) : at[s] <= 0 BY <1>1
  <2>3. Dims(opt.dims) BY RunIs
  <2> QED BY <2>1, <2>2, <2>3, DoneIs
<1>6. pass \in Nat /\ pass * n \in Nat /\ pass * n + 0 = pass * n
  <2>1. pass \in Nat
    <3>1. PassesOf(opt.dims) \in Nat BY RunIs
    <3> QED BY <1>2, <3>1 DEF DriverCounts
  <2>2. pass * n \in Nat BY <2>1
  <2> QED BY <2>1, <2>2
<1>7. Counted("store") = IF phase' = "store" THEN pass' * n ELSE (pass' + 1) * n BY <1>1, <1>2, <1>3, <1>5, <1>6 DEF DriverCounts
<1>8. Counted("load") = pass' * n BY <1>1, <1>2, <1>3, <1>5, <1>6 DEF DriverCounts
<1>9. /\ pass' < opt.dims.warmup => tally.store.timed = 0
      /\ pass' >= opt.dims.warmup => /\ tally.store.warm <= opt.dims.warmup * n
                                     /\ tally.store.timed <= (pass' - opt.dims.warmup) * n + (IF phase' = "store" THEN 0 ELSE n)
  BY <1>1, <1>2, <1>3, <1>5 DEF DriverCounts
<1>10. \A u \in engine : \E it \in 0 .. pass', s \in StreamIds(opt), k \in 1 .. InStream(opt.dims) :
         u = ObjectKey(opt, it, s, k) /\ (it < pass' \/ phase' = "load" \/ k <= at'[s])
  <2> SUFFICES ASSUME NEW u \in engine
               PROVE  \E it \in 0 .. pass, s \in StreamIds(opt), k \in 1 .. InStream(opt.dims) :
                        u = ObjectKey(opt, it, s, k) /\ (it < pass \/ phase = "load" \/ k <= at'[s])
    BY <1>1
  <2>1. PICK it \in 0 .. pass, s \in StreamIds(opt), k \in 1 .. InStream(opt.dims) :
          u = ObjectKey(opt, it, s, k) /\ (it < pass \/ phase = "load" \/ k <= at[s])
    BY <1>2 DEF DriverCounts
  <2>2. ~(k <= at[s])
    <3>1. InStream(opt.dims) \in Nat BY RunIs
    <3> QED BY <1>1, <3>1
  <2> QED BY <2>1, <2>2
<1>11. opt' = opt /\ pass' \in 0 .. PassesOf(opt.dims) /\ phase' \in {"store", "load"} /\ tally' = tally /\ engine' = engine
  BY <1>1, <1>2 DEF DriverCounts
<1>12. DriverCounts' BY <1>3, <1>4, <1>7, <1>8, <1>9, <1>10, <1>11, BarrierCounts
<1>13. FinishedAccounts' BY <1>1, <1>2 DEF FinishedAccounts
<1>14. pass' < PassesOf(opt'.dims) BY <1>1, <1>2
<1> QED BY <1>1, <1>2, <1>12, <1>13, <1>14 DEF DriverInv


\* All streams are done: the next phase or the next pass begins at the barrier,
\* or the passes are over.
LEMMA JoinedStep ==
    ASSUME DriverInv, Joined
    PROVE  DriverInv'
<1>1. /\ dstep = "run" /\ \A s \in StreamIds(opt) : at[s] = Len(phase_operations(opt, pass, phase, s))
      /\ at' = AtBarrier /\ UNCHANGED <<opt, engine, tally, manifest, status>>
  BY DEF Joined
<1>2. /\ opt \in CommandLines /\ tally \in [{"store", "load"} -> [failed : Nat, timed : Nat, warm : Nat]]
      /\ IsFiniteSet(engine) /\ Cardinality(engine) = tally.store.timed + tally.store.warm
      /\ DriverCounts /\ pass < PassesOf(opt.dims) /\ phase \in {"store", "load"} /\ manifest \in {"none", "started"}
  BY <1>1 DEF DriverInv
<1>3. PICK n \in Nat \ {0}, m \in Nat \ {0}, w \in Nat, total \in Nat \ {0} :
        /\ n = InPhase(opt.dims) /\ m = InStream(opt.dims) /\ w = opt.dims.warmup /\ total = PassesOf(opt.dims)
        /\ total = opt.dims.warmup + opt.dims.iters
  BY RunIs
<1>4. pass \in Nat /\ pass \in 0 .. total - 1 /\ at \in [StreamIds(opt) -> -1 .. m] BY <1>2, <1>3 DEF DriverCounts
<1>5. Dims(opt.dims) /\ opt.intent \in BOOLEAN BY RunIs
<1>6. \A s \in StreamIds(opt) : at[s] = m
  <2> SUFFICES ASSUME NEW s \in StreamIds(opt) PROVE at[s] = m OBVIOUS
  <2>1. s \in 0 .. opt.dims.streams - 1 BY DEF StreamIds, NStreams
  <2>2. phase_operations(opt, pass, phase, s) = [k \in 1 .. InStream(opt.dims) |-> Nth(opt.dims, pass, phase, s, k)]
    <3>1. pass \in 0 .. PassesOf(opt.dims) - 1 BY <1>3, <1>4
    <3> QED BY <1>2, <1>5, <2>1, <3>1, OperationsOfPhase
  <2>3. Len([k \in 1 .. m |-> Nth(opt.dims, pass, phase, s, k)]) = m OBVIOUS
  <2> QED BY <1>1, <1>3, <2>2, <2>3
<1>7. Cardinality(DoneOf(opt, at)) = n BY <1>3, <1>4, <1>5, <1>6, DoneIs
<1>8. Cardinality(DoneOf(opt, at')) = 0 /\ at' \in [StreamIds(opt) -> -1 .. InStream(opt.dims)]
  <2>1. PICK places : places = [s \in StreamIds(opt) |-> -1] OBVIOUS
  <2>2. Cardinality(DoneOf(opt, places)) = 0 /\ places \in [StreamIds(opt) -> -1 .. InStream(opt.dims)] BY <2>1, NoneDone
  <2> QED BY <1>1, <2>1, <2>2 DEF AtBarrier
<1>9. PICK timed \in Nat, warm \in Nat : timed = tally.store.timed /\ warm = tally.store.warm /\ timed + warm <= Counted("store")
  BY <1>2 DEF Counted
<1>10. /\ Counted("store") = IF phase = "store" THEN pass * n + n ELSE (pass + 1) * n
       /\ Counted("load") = IF phase = "store" THEN pass * n ELSE pass * n + n
       /\ pass < w => timed = 0
       /\ pass >= w => warm <= w * n /\ timed <= (pass - w) * n + n
  BY <1>2, <1>3, <1>7, <1>9 DEF DriverCounts
<1>11. pass * n + n = (pass + 1) * n BY <1>4
<1>12. opt' = opt /\ tally' = tally /\ engine' = engine /\ manifest' = manifest BY <1>1
<1>13. FinishedAccounts' BY <1>2, <1>12 DEF FinishedAccounts
<1>14. \A u \in engine : \E it \in 0 .. pass, s \in StreamIds(opt), k \in 1 .. InStream(opt.dims) : u = ObjectKey(opt, it, s, k)
  BY <1>2 DEF DriverCounts
<1>15. CASE phase = "store"
  <2>1. phase' = "load" /\ pass' = pass /\ dstep' = dstep BY <1>15 DEF Joined
  <2>2. Counted("store") = (IF phase' = "store" THEN pass' * n ELSE (pass' + 1) * n) /\ Counted("load") = pass' * n
    BY <1>10, <1>11, <1>15, <2>1
  <2>3. /\ pass' < opt.dims.warmup => tally.store.timed = 0
        /\ pass' >= opt.dims.warmup => /\ tally.store.warm <= opt.dims.warmup * n
                                       /\ tally.store.timed <= (pass' - opt.dims.warmup) * n + (IF phase' = "store" THEN 0 ELSE n)
    BY <1>3, <1>9, <1>10, <2>1
  <2>4. \A u \in engine : \E it \in 0 .. pass', s \in StreamIds(opt), k \in 1 .. InStream(opt.dims) :
          u = ObjectKey(opt, it, s, k) /\ (it < pass' \/ phase' = "load" \/ k <= at'[s])
    BY <1>14, <2>1
  <2>5. pass' \in 0 .. PassesOf(opt.dims) /\ phase' \in {"store", "load"} BY <1>3, <1>4, <2>1
  <2>6. DriverCounts' BY <1>3, <1>8, <1>12, <2>2, <2>3, <2>4, <2>5, BarrierCounts
  <2>7. pass' < PassesOf(opt'.dims) BY <1>2, <1>12, <2>1
  <2> QED BY <1>1, <1>2, <1>12, <1>13, <2>1, <2>5, <2>6, <2>7 DEF DriverInv
<1>16. CASE phase = "load"
  <2>1. /\ phase' = "store" /\ pass' = pass + 1
        /\ dstep' = IF pass + 1 = total THEN IF opt.gate_close THEN "closing" ELSE "report"
                    ELSE IF opt.gate /\ pass + 1 = opt.dims.warmup THEN "gate" ELSE "run"
    BY <1>3, <1>16 DEF Joined
  <2>2. Counted("store") = (IF phase' = "store" THEN pass' * n ELSE (pass' + 1) * n) /\ Counted("load") = pass' * n
    BY <1>10, <1>11, <1>16, <2>1
  <2>3. pass' < w => timed = 0 BY <1>3, <1>4, <1>10, <2>1
  <2>4. pass' >= w => warm <= w * n /\ timed <= (pass' - w) * n
    <3>1. CASE pass < w
      <4>1. timed = 0 BY <1>10, <3>1
      <4>2. pass' >= w => pass' = w BY <1>4, <2>1, <3>1
      <4>3. warm <= pass' * n BY <1>9, <2>1, <2>2, <4>1
      <4>4. (w - w) * n = 0 OBVIOUS
      <4> QED BY <4>1, <4>2, <4>3, <4>4
    <3>2. CASE pass >= w
      <4>1. warm <= w * n /\ timed <= (pass - w) * n + n BY <1>10, <3>2
      <4>2. (pass - w) * n + n = (pass + 1 - w) * n BY <1>4
      <4>3. pass' - w = pass + 1 - w BY <1>4, <2>1
      <4>4. timed <= (pass' - w) * n BY <4>1, <4>2, <4>3
      <4> QED BY <4>1, <4>4
    <3> QED BY <1>4, <3>1, <3>2
  <2>5. PICK x \in Nat, y \in Int : x = w * n /\ y = (pass' - w) * n
    <3>1. w * n \in Nat OBVIOUS
    <3>2. (pass' - w) * n \in Int BY <1>4, <2>1
    <3> QED BY <3>1, <3>2
  <2>6. /\ pass' < opt.dims.warmup => tally.store.timed = 0
        /\ pass' >= opt.dims.warmup => /\ tally.store.warm <= opt.dims.warmup * n
                                       /\ tally.store.timed <= (pass' - opt.dims.warmup) * n + (IF phase' = "store" THEN 0 ELSE n)
    <3>1. y + (IF phase' = "store" THEN 0 ELSE n) = y BY <2>1
    <3>2. pass' < w => timed = 0 BY <2>3
    <3>3. pass' >= w => warm <= x /\ timed <= y + (IF phase' = "store" THEN 0 ELSE n) BY <2>4, <2>5, <3>1
    <3> QED BY <1>3, <1>9, <2>5, <3>2, <3>3
  <2>7. \A u \in engine : \E it \in 0 .. pass', s \in StreamIds(opt), k \in 1 .. InStream(opt.dims) :
          u = ObjectKey(opt, it, s, k) /\ (it < pass' \/ phase' = "load" \/ k <= at'[s])
    <3> SUFFICES ASSUME NEW u \in engine
                 PROVE  \E it \in 0 .. pass', s \in StreamIds(opt), k \in 1 .. InStream(opt.dims) :
                          u = ObjectKey(opt, it, s, k) /\ (it < pass' \/ phase' = "load" \/ k <= at'[s])
      OBVIOUS
    <3>1. PICK it \in 0 .. pass, s \in StreamIds(opt), k \in 1 .. InStream(opt.dims) : u = ObjectKey(opt, it, s, k) BY <1>14
    <3>2. it \in 0 .. pass' /\ it < pass' BY <1>4, <2>1
    <3> QED BY <3>1, <3>2
  <2>8. pass' \in 0 .. PassesOf(opt.dims) /\ phase' \in {"store", "load"} BY <1>3, <1>4, <2>1
  <2>9. DriverCounts' BY <1>3, <1>8, <1>12, <2>2, <2>6, <2>7, <2>8, BarrierCounts
  <2>10. CASE pass + 1 = total
    <3>1. dstep' \in {"closing", "report"} BY <2>1, <2>10
    <3>2. pass' = PassesOf(opt'.dims) /\ at' = AtBarrier' BY <1>1, <1>3, <2>1, <2>10 DEF AtBarrier
    <3> QED BY <1>2, <1>12, <1>13, <2>1, <2>9, <3>1, <3>2 DEF DriverInv
  <2>11. CASE pass + 1 # total
    <3>1. dstep' \in {"gate", "run"} BY <2>1, <2>11
    <3>2. pass + 1 < total BY <1>4, <2>11
    <3>3. pass' < PassesOf(opt'.dims) BY <1>3, <1>12, <2>1, <3>2
    <3> QED BY <1>2, <1>12, <1>13, <2>1, <2>9, <3>1, <3>3 DEF DriverInv
  <2> QED BY <2>10, <2>11
<1> QED BY <1>2, <1>15, <1>16

\* The passes are over: all their operations are counted.
LEMMA ReportStep ==
    ASSUME DriverInv, Report
    PROVE  DriverInv'
<1>1. /\ dstep = "report" /\ dstep' = "exited" /\ UNCHANGED <<opt, pass, phase, at, engine, tally>>
  BY DEF Report, Exit
<1>2. /\ opt \in CommandLines /\ tally \in [{"store", "load"} -> [failed : Nat, timed : Nat, warm : Nat]]
      /\ IsFiniteSet(engine) /\ Cardinality(engine) = tally.store.timed + tally.store.warm
      /\ DriverCounts /\ pass = PassesOf(opt.dims) /\ phase = "store" /\ at = AtBarrier /\ manifest \in {"none", "started"}
  BY <1>1 DEF DriverInv
<1>3. PICK n \in Nat \ {0}, w \in Nat, iters \in Nat :
        n = InPhase(opt.dims) /\ w = opt.dims.warmup /\ iters = opt.dims.iters /\ PassesOf(opt.dims) = w + iters
  BY RunIs
<1>4. Cardinality(DoneOf(opt, at)) = 0
  <2>1. PICK places : places = [s \in StreamIds(opt) |-> -1] OBVIOUS
  <2>2. Cardinality(DoneOf(opt, places)) = 0 BY <2>1, NoneDone
  <2> QED BY <1>2, <2>1, <2>2 DEF AtBarrier
<1>5. PICK a \in Nat, b \in Nat : a = w * n /\ b = iters * n
  <2>1. w * n \in Nat /\ iters * n \in Nat OBVIOUS
  <2> QED BY <2>1
<1>6. (w + iters) * n = a + b
  <2>1. (w + iters) * n = w * n + iters * n OBVIOUS
  <2> QED BY <1>5, <2>1
<1>7. PICK failed \in Nat, timed \in Nat, warm \in Nat, lost \in Nat :
        failed = tally.store.failed /\ timed = tally.store.timed /\ warm = tally.store.warm /\ lost = tally.load.failed
  BY <1>2
<1>8. Counted("store") = a + b /\ Counted("load") = a + b
  <2>1. Counted("store") = pass * n + Cardinality(DoneOf(opt, at)) /\ Counted("load") = pass * n BY <1>2, <1>3 DEF DriverCounts
  <2>2. pass * n = a + b BY <1>2, <1>3, <1>6
  <2> QED BY <1>4, <2>1, <2>2
<1>9. warm <= a /\ timed <= b
  <2>1. pass >= w /\ pass - w = iters BY <1>2, <1>3
  <2>2. warm <= w * n /\ timed <= (pass - w) * n + Cardinality(DoneOf(opt, at)) BY <1>2, <1>3, <1>7, <2>1 DEF DriverCounts
  <2> QED BY <1>4, <1>5, <2>1, <2>2
<1>10. failed + timed + warm = a + b BY <1>7, <1>8 DEF Counted
<1>11. failed = 0 => timed = b BY <1>9, <1>10
<1>12. /\ manifest' = IF ~opt.intent THEN manifest ELSE IF failed + lost = 0 THEN "complete" ELSE "completed-with-io-errors"
       /\ status' = IF failed + lost # 0 /\ ~opt.allow_io_errors THEN 2 ELSE 0
  BY <1>7 DEF Report, Exit
<1>13. Counted("store")' = a + b /\ Counted("load")' = a + b BY <1>1, <1>8 DEF Counted
<1>14. PassesOf(opt'.dims) * InPhase(opt'.dims) = a + b /\ opt'.dims.iters * InPhase(opt'.dims) = b BY <1>1, <1>3, <1>5, <1>6
<1>15. /\ tally'.store.timed = timed /\ tally'.load.failed = lost /\ tally'.store.failed = failed BY <1>1, <1>7
<1>16. FinishedAccounts'
  <2> SUFFICES ASSUME manifest' \in {"complete", "completed-with-io-errors"}
               PROVE  /\ \A p \in {"store", "load"} : Counted(p)' = PassesOf(opt'.dims) * InPhase(opt'.dims)
                      /\ manifest' = "complete" <=> /\ tally'.store.timed = opt'.dims.iters * InPhase(opt'.dims)
                                                    /\ tally'.load.failed = 0 /\ tally'.store.failed = 0
                      /\ status' = 0 => manifest' = "complete" \/ opt'.allow_io_errors
    BY DEF FinishedAccounts
  <2>1. manifest' = IF failed + lost = 0 THEN "complete" ELSE "completed-with-io-errors" BY <1>2, <1>12
  <2>2. failed + lost = 0 <=> failed = 0 /\ lost = 0 OBVIOUS
  <2>3. \A p \in {"store", "load"} : Counted(p)' = PassesOf(opt'.dims) * InPhase(opt'.dims) BY <1>13, <1>14
  <2>4. manifest' = "complete" <=> /\ tally'.store.timed = opt'.dims.iters * InPhase(opt'.dims)
                                   /\ tally'.load.failed = 0 /\ tally'.store.failed = 0
    BY <1>11, <1>14, <1>15, <2>1, <2>2
  <2>5. status' = 0 => manifest' = "complete" \/ opt'.allow_io_errors BY <1>1, <1>12, <2>1
  <2> QED BY <2>3, <2>4, <2>5
<1> QED BY <1>1, <1>2, <1>16 DEF DriverInv

\* The steps that leave the operations alone.
LEMMA OtherSteps ==
    ASSUME DriverInv,
           \/ Parse \/ Go \/ GateTimeout \/ Close \/ CloseTimeout \/ Attach \/ Detach \/ UNCHANGED driverVars
    PROVE  DriverInv'
<1>1. /\ UNCHANGED <<opt, pass, phase, at, engine, tally>>
      /\ \/ /\ dstep' \in {"exited", "setup"} /\ dstep = "parse" /\ manifest' \in {"none", "started"}
         \/ UNCHANGED <<dstep, manifest, status>>
         \/ dstep = "gate" /\ dstep' = "run" /\ UNCHANGED manifest
         \/ dstep = "closing" /\ dstep' = "report" /\ UNCHANGED manifest
         \/ dstep \in {"gate", "closing"} /\ dstep' = "exited" /\ UNCHANGED manifest
  BY DEF DriverInv, Parse, Go, GateTimeout, Close, CloseTimeout, Attach, Detach, driverVars, Exit
<1>2. DriverCounts => DriverCounts' BY <1>1 DEF DriverCounts, Counted
<1>3. AtBarrier' = AtBarrier BY <1>1 DEF AtBarrier
<1>4. FinishedAccounts'
  <2>1. CASE UNCHANGED <<manifest, status>> BY <1>1, <2>1 DEF DriverInv, FinishedAccounts, Counted
  <2>2. CASE manifest' \in {"none", "started"} BY <2>2 DEF FinishedAccounts
  <2> QED BY <1>1, <2>1, <2>2 DEF DriverInv
<1> QED BY <1>1, <1>2, <1>3, <1>4 DEF DriverInv

LEMMA DriverStep ==
    ASSUME DriverInv, [DriverNext]_driverVars
    PROVE  DriverInv'
  BY SetupStep, OpensStep, OperateStep, JoinedStep, ReportStep, OtherSteps DEF DriverNext

\* For any command lines within DriverAssumption, any streams, passes and
\* failing operations: the markers enclose the timed operations and nothing
\* else, an object keeps a slot of its own through all passes, a run that
\* reports has accounted for every operation, and the intent written replays
\* the run operation by operation and is lowered to the commands projected, or
\* to more under a lower limit (run_kv_offload_io).
THEOREM DriverTrue == DriverSpec => []DriverIsTrue
<1>1. WarmupNotNegative BY DriverAssumption DEF WarmupNotNegative
<1>2. DriverInit => DriverInv /\ MarkersInv BY DriverStart DEF DriverInit, MarkersInv
<1>3. ASSUME DriverInv, MarkersInv, [DriverNext]_driverVars PROVE DriverInv' /\ MarkersInv' BY <1>1, <1>3, DriverStep, MarkersStep
<1>4. ASSUME DriverInv, MarkersInv PROVE DriverIsTrue
  <2>1. opt \in CommandLines BY <1>4 DEF DriverInv
  <2>2. ReplayIsTheRun BY <2>1, ReplayRuns
  <2> QED BY <1>4, <2>2 DEF DriverIsTrue, DriverAccounts, DriverInv
<1> QED BY <1>2, <1>3, <1>4, PTL DEF DriverSpec

----------------------------------------------------------------------------
(* Documents: intent.py, intent2.py, workload3.py and engines.py.          *)

\* Sequences of any lengths, one after the other: p[i] is where the i-th ends.
Places(seqs, n, V, p, s) ==
    /\ p \in [0 .. n -> Nat] /\ p[0] = 0
    /\ \A i \in 1 .. n : p[i] = p[i - 1] + Len(seqs[i])
    /\ \A i, j \in 0 .. n : i <= j => p[i] <= p[j]
    /\ s \in [1 .. p[n] -> V]
    /\ \A i \in 1 .. n : \A k \in 1 .. Len(seqs[i]) : s[p[i - 1] + k] = seqs[i][k]
    /\ \A x \in 1 .. p[n] : \E i \in 1 .. n : \E k \in 1 .. Len(seqs[i]) : x = p[i - 1] + k

\* One sequence more.
LEMMA PlacesStep ==
    ASSUME NEW V, NEW m \in Nat \ {0}, NEW seqs, \A i \in 1 .. (m + 1) : seqs[i] \in Seq(V), NEW p, NEW s, Places(seqs, m, V, p, s)
    PROVE  \E q : Places(seqs, m + 1, V, q, s \o seqs[m + 1])
<1>1. PICK t : t = seqs[m + 1] OBVIOUS
<1>2. PICK a \in Nat, b \in Nat : a = p[m] /\ b = Len(t)
  <2>1. t \in Seq(V) BY <1>1
  <2>2. Len(t) \in Nat BY <2>1
  <2>3. p[m] \in Nat BY DEF Places
  <2> QED BY <2>2, <2>3
<1>3. s \in [1 .. a -> V] BY <1>2 DEF Places
<1>4. t \in [1 .. b -> V]
  <2>1. t \in Seq(V) BY <1>1
  <2> QED BY <1>2, <2>1, LenProperties
<1>5. PICK c : c = s \o t OBVIOUS
<1>6. c = [i \in 1 .. (a + b) |-> IF i <= a THEN s[i] ELSE t[i - a]] /\ c \in [1 .. (a + b) -> V]
  <2>1. OneAfterOther(s, t, a, b, V) BY <1>3, <1>4, ConcatIs
  <2> QED BY <1>5, <2>1 DEF OneAfterOther
<1>7. PICK q : q = [i \in 0 .. (m + 1) |-> IF i <= m THEN p[i] ELSE a + b] OBVIOUS
<1>8. p \in [0 .. m -> Nat] /\ p[0] = 0 /\ (\A i \in 1 .. m : p[i] = p[i - 1] + Len(seqs[i])) /\ \A i, j \in 0 .. m : i <= j => p[i] <= p[j]
  BY DEF Places
<1>9. q \in [0 .. (m + 1) -> Nat] /\ q[0] = 0 /\ q[m + 1] = a + b /\ \A i \in 0 .. m : q[i] = p[i] BY <1>7, <1>8
<1>10. ASSUME NEW i \in 1 .. (m + 1) PROVE q[i] = q[i - 1] + Len(seqs[i])
  <2>1. CASE i <= m
    <3>1. i \in 1 .. m /\ i \in 0 .. m /\ i - 1 \in 0 .. m BY <2>1
    <3> QED BY <1>8, <1>9, <3>1
  <2>2. CASE i = m + 1
    <3>1. i - 1 = m /\ m \in 0 .. m BY <2>2
    <3> QED BY <1>1, <1>2, <1>9, <2>2, <3>1
  <2> QED BY <2>1, <2>2
<1>11. ASSUME NEW i \in 0 .. (m + 1), NEW j \in 0 .. (m + 1), i <= j PROVE q[i] <= q[j]
  <2>1. CASE j <= m
    <3>1. i \in 0 .. m /\ j \in 0 .. m BY <1>11, <2>1
    <3> QED BY <1>8, <1>9, <1>11, <3>1
  <2>2. CASE j = m + 1 /\ i <= m
    <3>1. i \in 0 .. m /\ m \in 0 .. m /\ i <= m BY <2>2
    <3>2. p[i] <= a BY <1>2, <1>8, <3>1
    <3> QED BY <1>8, <1>9, <2>2, <3>1, <3>2
  <2>3. CASE j = m + 1 /\ i = m + 1 BY <1>9, <2>3
  <2> QED BY <2>1, <2>2, <2>3
<1>12. ASSUME NEW i \in 1 .. (m + 1), NEW k \in 1 .. Len(seqs[i]) PROVE c[q[i - 1] + k] = seqs[i][k]
  <2>1. seqs[i] \in Seq(V) OBVIOUS
  <2>2. PICK len \in Nat : len = Len(seqs[i]) BY <2>1
  <2>3. CASE i <= m
    <3>1. i \in 1 .. m /\ i - 1 \in 0 .. m /\ i \in 0 .. m /\ m \in 0 .. m /\ i <= m BY <2>3
    <3>2. p[i - 1] \in Nat /\ p[i] \in Nat /\ p[i] = p[i - 1] + len /\ p[i] <= a BY <1>2, <1>8, <2>2, <3>1
    <3>3. PICK x \in Nat : x = p[i - 1] + k /\ x \in 1 .. a BY <2>2, <3>2
    <3>4. c[x] = s[x] BY <1>6, <3>3
    <3>5. s[p[i - 1] + k] = seqs[i][k] BY <1>12, <3>1 DEF Places
    <3>6. q[i - 1] = p[i - 1] BY <1>9, <3>1
    <3> QED BY <3>3, <3>4, <3>5, <3>6
  <2>4. CASE i = m + 1
    <3>1. q[i - 1] = a
      <4>1. i - 1 = m /\ m \in 0 .. m BY <2>4
      <4> QED BY <1>2, <1>9, <4>1
    <3>2. k \in 1 .. b BY <1>1, <1>2, <2>4
    <3>3. a + k \in 1 .. (a + b) /\ ~(a + k <= a) /\ (a + k) - a = k BY <3>2
    <3>4. c[a + k] = t[k] BY <1>6, <3>3
    <3> QED BY <1>1, <2>4, <3>1, <3>4
  <2> QED BY <2>3, <2>4
<1>13. ASSUME NEW x \in 1 .. (a + b) PROVE \E i \in 1 .. (m + 1) : \E k \in 1 .. Len(seqs[i]) : x = q[i - 1] + k
  <2>1. CASE x <= a
    <3>1. x \in 1 .. p[m] BY <1>2, <2>1
    <3>2. PICK i \in 1 .. m : \E k \in 1 .. Len(seqs[i]) : x = p[i - 1] + k BY <3>1 DEF Places
    <3>3. PICK k \in 1 .. Len(seqs[i]) : x = p[i - 1] + k BY <3>2
    <3>4. q[i - 1] = p[i - 1] /\ i \in 1 .. (m + 1)
      <4>1. i - 1 \in 0 .. m OBVIOUS
      <4> QED BY <1>9, <4>1
    <3> QED BY <3>3, <3>4
  <2>2. CASE x > a
    <3>1. x - a \in 1 .. Len(seqs[m + 1]) /\ x = a + (x - a) BY <1>1, <1>2, <2>2
    <3>2. (m + 1) - 1 = m /\ q[m] = a /\ m + 1 \in 1 .. (m + 1)
      <4>1. m \in 0 .. m OBVIOUS
      <4> QED BY <1>2, <1>9, <4>1
    <3>3. x = q[(m + 1) - 1] + (x - a) BY <3>1, <3>2
    <3> QED BY <3>1, <3>2, <3>3
  <2> QED BY <2>1, <2>2
<1>14. c \in [1 .. q[m + 1] -> V] BY <1>6, <1>9
<1>15. Places(seqs, m + 1, V, q, c)
  <2>1. \A x \in 1 .. q[m + 1] : \E i \in 1 .. (m + 1) : \E k \in 1 .. Len(seqs[i]) : x = q[i - 1] + k BY <1>9, <1>13
  <2> QED BY <1>9, <1>10, <1>11, <1>12, <1>14, <2>1 DEF Places
<1> QED BY <1>1, <1>5, <1>15

LEMMA FlattenPlaces ==
    ASSUME NEW V, NEW n \in Nat \ {0}, NEW seqs \in [1 .. n -> Seq(V)]
    PROVE  \E p : Places(seqs, n, V, p, FlattenSeq(seqs))
<1> DEFINE Good(m) == \E w : Flattens(w, seqs, m) /\ \E p : Places(seqs, m, V, p, w[m])
           Bad == {m \in 1 .. n : ~Good(m)}
<1>1. Good(1)
  <2>1. PICK t : t = seqs[1] OBVIOUS
  <2>2. t \in Seq(V) /\ 1 \in 1 .. n BY <2>1
  <2>3. PICK b \in Nat : b = Len(t) BY <2>2
  <2>4. t \in [1 .. b -> V] BY <2>2, <2>3, LenProperties
  <2>5. PICK w : w = [i \in 1 .. 1 |-> t] OBVIOUS
  <2>6. Flattens(w, seqs, 1)
    <3>1. w = [i \in 1 .. 1 |-> w[i]] /\ w[1] = seqs[1] BY <2>1, <2>5
    <3>2. 2 .. 1 = {} OBVIOUS
    <3> QED BY <3>1, <3>2 DEF Flattens
  <2>7. PICK p : p = [i \in 0 .. 1 |-> IF i = 0 THEN 0 ELSE b] OBVIOUS
  <2>8. p \in [0 .. 1 -> Nat] /\ p[0] = 0 /\ p[1] = b BY <2>7
  <2>9. w[1] = t BY <2>5
  <2>10. Places(seqs, 1, V, p, t)
    <3>1. \A i \in 1 .. 1 : i = 1 /\ i - 1 = 0 OBVIOUS
    <3>2. \A i \in 1 .. 1 : p[i] = p[i - 1] + Len(seqs[i]) BY <2>1, <2>3, <2>8, <3>1
    <3>3. \A i, j \in 0 .. 1 : i <= j => p[i] <= p[j] BY <2>8
    <3>4. t \in [1 .. p[1] -> V] BY <2>4, <2>8
    <3>5. ASSUME NEW i \in 1 .. 1, NEW k \in 1 .. Len(seqs[i]) PROVE t[p[i - 1] + k] = seqs[i][k]
      <4>1. i = 1 /\ p[i - 1] = 0 /\ k \in 1 .. b BY <2>1, <2>3, <2>8, <3>1
      <4>2. 0 + k = k BY <4>1
      <4> QED BY <2>1, <4>1, <4>2
    <3>6. ASSUME NEW x \in 1 .. p[1] PROVE \E i \in 1 .. 1 : \E k \in 1 .. Len(seqs[i]) : x = p[i - 1] + k
      <4>1. x \in 1 .. Len(seqs[1]) /\ x = p[1 - 1] + x /\ 1 \in 1 .. 1 BY <2>1, <2>3, <2>8
      <4> QED BY <4>1
    <3> QED BY <2>8, <3>2, <3>3, <3>4, <3>5, <3>6 DEF Places
  <2> QED BY <2>6, <2>9, <2>10
<1>2. ASSUME NEW m \in 1 .. n, m + 1 \in 1 .. n, Good(m) PROVE Good(m + 1)
  <2>1. PICK w : Flattens(w, seqs, m) /\ \E p : Places(seqs, m, V, p, w[m]) BY <1>2
  <2>2. PICK p : Places(seqs, m, V, p, w[m]) BY <2>1
  <2>3. PICK s : s = w[m] \o seqs[m + 1] OBVIOUS
  <2>4. \E q : Places(seqs, m + 1, V, q, s)
    <3>1. \A i \in 1 .. (m + 1) : seqs[i] \in Seq(V) BY <1>2
    <3>2. m \in Nat \ {0} OBVIOUS
    <3> QED BY <2>2, <2>3, <3>1, <3>2, PlacesStep
  <2>5. PICK u : u = [i \in 1 .. (m + 1) |-> IF i <= m THEN w[i] ELSE s] OBVIOUS
  <2>6. u[m + 1] = s /\ \A i \in 1 .. m : u[i] = w[i] BY <2>5
  <2>7. Flattens(u, seqs, m + 1)
    <3>1. u = [i \in 1 .. (m + 1) |-> u[i]] BY <2>5
    <3>2. u[1] = seqs[1]
      <4>1. 1 \in 1 .. m OBVIOUS
      <4> QED BY <2>1, <2>6, <4>1 DEF Flattens
    <3>3. ASSUME NEW i \in 2 .. (m + 1) PROVE u[i] = u[i - 1] \o seqs[i]
      <4>1. CASE i <= m
        <5>1. i \in 1 .. m /\ i - 1 \in 1 .. m /\ i \in 2 .. m BY <4>1
        <5> QED BY <2>1, <2>6, <5>1 DEF Flattens
      <4>2. CASE i = m + 1
        <5>1. i - 1 = m /\ m \in 1 .. m BY <4>2
        <5> QED BY <2>3, <2>6, <4>2, <5>1
      <4>3. i <= m \/ i = m + 1
        <5>1. m \in Nat /\ i \in 2 .. (m + 1) OBVIOUS
        <5> QED BY <5>1
      <4> QED BY <4>1, <4>2, <4>3
    <3> QED BY <3>1, <3>2, <3>3 DEF Flattens
  <2> QED BY <2>4, <2>6, <2>7
<1> HIDE DEF Good
<1>3. Bad = {}
  <2> SUFFICES ASSUME Bad # {} PROVE FALSE OBVIOUS
  <2>1. Bad \in SUBSET Nat OBVIOUS
  <2>2. PICK m \in Bad : \A j \in Bad : m <= j
    <3> HIDE DEF Bad
    <3> QED BY <2>1, SmallestNat
  <2>3. m \in 1 .. n /\ ~Good(m) OBVIOUS
  <2>4. m # 1 BY <1>1, <2>3
  <2>5. PICK j \in 1 .. n : j = m - 1 BY <2>3, <2>4
  <2>6. j \notin Bad
    <3> HIDE DEF Bad
    <3> QED BY <2>2, <2>3, <2>5
  <2>7. Good(j) BY <2>6
  <2>8. j + 1 = m BY <2>3, <2>5
  <2>9. Good(m) BY <1>2, <2>3, <2>7, <2>8
  <2> QED BY <2>3, <2>9
<1>4. Good(n)
  <2>1. n \in 1 .. n OBVIOUS
  <2> QED BY <1>3, <2>1
<1>5. PICK w : Flattens(w, seqs, n) /\ \E p : Places(seqs, n, V, p, w[n]) BY <1>4 DEF Good
<1>6. Len(seqs) = n OBVIOUS
<1>7. FlattenSeq(seqs) = w[n] BY <1>5, <1>6, FlattenIs
<1> QED BY <1>5, <1>7

\* A sequence cut in order and put together again.
CutsOf(whole, e, n) == [k \in 1 .. n |-> [b \in 1 .. (e[k] - e[k - 1]) |-> whole[e[k - 1] + b]]]
Rises(e, n, bytes) ==
    e \in [0 .. n -> 0 .. bytes] /\ e[0] = 0 /\ e[n] = bytes /\ \A k \in 1 .. n : e[k - 1] <= e[k]
LEMMA CutTogether ==
    ASSUME NEW V, NEW bytes \in Nat, NEW whole \in [1 .. bytes -> V], NEW n \in Nat \ {0}, NEW e, Rises(e, n, bytes)
    PROVE  FlattenSeq(CutsOf(whole, e, n)) = whole
<1>1. e \in [0 .. n -> 0 .. bytes] /\ e[0] = 0 /\ e[n] = bytes /\ \A k \in 1 .. n : e[k - 1] <= e[k] BY DEF Rises
<1>2. PICK seqs : seqs = CutsOf(whole, e, n) OBVIOUS
<1>3. seqs = [k \in 1 .. n |-> [b \in 1 .. (e[k] - e[k - 1]) |-> whole[e[k - 1] + b]]] BY <1>2 DEF CutsOf
<1>4. PICK w : w = [k \in 1 .. n |-> [b \in 1 .. e[k] |-> whole[b]]] OBVIOUS
<1>5. w[1] = seqs[1]
  <2>1. 1 \in 1 .. n /\ 1 - 1 = 0 OBVIOUS
  <2>2. PICK a \in Nat : a = e[1] /\ a <= bytes
    <3>1. e[1] \in 0 .. bytes BY <1>1
    <3> QED BY <3>1
  <2>3. seqs[1] = [b \in 1 .. (a - 0) |-> whole[0 + b]] BY <1>1, <1>3, <2>1, <2>2
  <2>4. a - 0 = a /\ \A b \in 1 .. a : 0 + b = b OBVIOUS
  <2>5. seqs[1] = [b \in 1 .. a |-> whole[b]] BY <2>3, <2>4
  <2> QED BY <1>4, <2>1, <2>2, <2>5
<1>6. ASSUME NEW i \in 2 .. n PROVE w[i] = w[i - 1] \o seqs[i]
  <2>1. i \in 1 .. n /\ i - 1 \in 1 .. n /\ i - 1 \in 0 .. n /\ i \in 0 .. n OBVIOUS
  <2>2. PICK a \in Nat, c \in Nat : a = e[i - 1] /\ c = e[i] /\ a <= c /\ c <= bytes
    <3>1. e[i - 1] \in 0 .. bytes /\ e[i] \in 0 .. bytes /\ e[i - 1] <= e[i] BY <1>1, <2>1
    <3> QED BY <3>1
  <2>3. PICK m \in Nat : m = c - a /\ a + m <= bytes BY <2>2
  <2>4. PICK s, t : s = w[i - 1] /\ t = seqs[i] OBVIOUS
  <2>5. s = [b \in 1 .. a |-> whole[b]] /\ t = [b \in 1 .. m |-> whole[a + b]] BY <1>3, <1>4, <2>1, <2>2, <2>3, <2>4
  <2>6. s \in [1 .. a -> V] /\ t \in [1 .. m -> V]
    <3>1. \A b \in 1 .. a : whole[b] \in V BY <2>2
    <3>2. \A b \in 1 .. m : whole[a + b] \in V
      <4>1. \A b \in 1 .. m : a + b \in 1 .. bytes BY <2>3
      <4> QED BY <4>1
    <3> QED BY <2>5, <3>1, <3>2
  <2>7. s \o t = [b \in 1 .. (a + m) |-> IF b <= a THEN s[b] ELSE t[b - a]]
    <3>1. OneAfterOther(s, t, a, m, V) BY <2>6, ConcatIs
    <3> QED BY <3>1 DEF OneAfterOther
  <2>8. ASSUME NEW b \in 1 .. (a + m) PROVE (IF b <= a THEN s[b] ELSE t[b - a]) = whole[b]
    <3>1. CASE b <= a
      <4>1. b \in 1 .. a BY <3>1
      <4> QED BY <2>5, <3>1, <4>1
    <3>2. CASE ~(b <= a)
      <4>1. b - a \in 1 .. m /\ a + (b - a) = b BY <3>2
      <4>2. t[b - a] = whole[a + (b - a)] BY <2>5, <4>1
      <4> QED BY <3>2, <4>1, <4>2
    <3> QED BY <3>1, <3>2
  <2>9. s \o t = [b \in 1 .. (a + m) |-> whole[b]] BY <2>7, <2>8
  <2>10. a + m = c BY <2>2, <2>3
  <2>11. w[i] = [b \in 1 .. c |-> whole[b]] BY <1>4, <2>1, <2>2
  <2> QED BY <2>4, <2>9, <2>10, <2>11
<1>7. Flattens(w, seqs, n)
  <2>1. w = [i \in 1 .. n |-> w[i]] BY <1>4
  <2> QED BY <1>5, <1>6, <2>1 DEF Flattens
<1>8. Len(seqs) = n BY <1>3
<1>9. FlattenSeq(seqs) = w[n] BY <1>7, <1>8, FlattenIs
<1>10. w[n] = [b \in 1 .. bytes |-> whole[b]]
  <2>1. n \in 1 .. n OBVIOUS
  <2> QED BY <1>1, <1>4, <2>1
<1> QED BY <1>2, <1>9, <1>10


\* The smallest of a set of limits.
LEMMA MinOfSet ==
    ASSUME NEW S \in SUBSET Nat, S # {}
    PROVE  Min(S) \in S /\ \A y \in S : Min(S) <= y
<1>1. PICK x \in S : \A y \in S : x <= y BY SmallestNat
<1> QED BY <1>1 DEF Min

\* A component of n bytes in c commands, of which the j-th ends at e[j].
CutAlong(cut, component, n, unit, c, e) ==
    /\ e \in [0 .. c -> 0 .. n] /\ e[0] = 0 /\ e[c] = n
    /\ \A j \in 1 .. c : e[j - 1] < e[j] /\ e[j] - e[j - 1] <= unit
    /\ cut = [j \in 1 .. c |-> cut[j]]
    /\ \A j \in 1 .. c : cut[j].component = component /\ cut[j].offset = e[j - 1] /\ cut[j].bytes = e[j] - e[j - 1]

LEMMA CutIs ==
    ASSUME NEW component, NEW n \in Nat, NEW unit \in Nat \ {0}
    PROVE  \E c \in Nat : \E e : CutAlong(Cut(component, n, unit), component, n, unit, c, e)
<1>1. PICK x \in Nat : x = n + unit - 1 OBVIOUS
<1>2. PICK c \in Nat, r \in 0 .. unit - 1 : c = x \div unit /\ x = unit * c + r BY Division
<1>3. PICK e : e = [j \in 0 .. c |-> IF j = c THEN n ELSE j * unit] OBVIOUS
<1>4. PICK cut : cut = Cut(component, n, unit) OBVIOUS
<1>5. cut = [j \in 1 .. c |-> [component |-> component, offset |-> (j - 1) * unit,
                               bytes |-> IF j * unit <= n THEN unit ELSE n - (j - 1) * unit]]
  BY <1>1, <1>2, <1>4 DEF Cut
<1>6. ASSUME NEW j \in 1 .. c
      PROVE  /\ e[j - 1] = (j - 1) * unit /\ e[j - 1] \in Nat /\ e[j] \in Nat /\ e[j] <= n
             /\ e[j - 1] < e[j] /\ e[j] - e[j - 1] <= unit
             /\ e[j] - e[j - 1] = IF j * unit <= n THEN unit ELSE n - (j - 1) * unit
  <2>1. PICK k \in Nat, g \in Nat : k = j - 1 /\ c = k + 1 + g
    <3>1. j - 1 \in Nat /\ c - j \in Nat /\ c = (j - 1) + 1 + (c - j) OBVIOUS
    <3> QED BY <3>1
  <2>2. PICK ku \in Nat, gu \in Nat : ku = k * unit /\ gu = g * unit
    <3>1. k * unit \in Nat /\ g * unit \in Nat OBVIOUS
    <3> QED BY <3>1
  <2>3. unit * c = ku + unit + gu
    <3>1. unit * (k + 1 + g) = k * unit + unit + g * unit OBVIOUS
    <3> QED BY <2>1, <2>2, <3>1
  <2>4. j * unit = ku + unit
    <3>1. (k + 1) * unit = k * unit + unit OBVIOUS
    <3>2. j = k + 1 BY <2>1
    <3> QED BY <2>2, <3>1, <3>2
  <2>5. n + unit - 1 = ku + unit + gu + r BY <1>1, <1>2, <2>3
  <2>6. e[j - 1] = ku
    <3>1. j - 1 \in 0 .. c /\ j - 1 # c OBVIOUS
    <3> QED BY <1>3, <2>1, <2>2, <3>1
  <2>7. CASE j = c
    <3>1. g = 0 BY <2>1, <2>7
    <3>2. gu = 0 BY <2>2, <3>1
    <3>3. e[j] = n
      <4>1. j \in 0 .. c OBVIOUS
      <4> QED BY <1>3, <2>7, <4>1
    <3>4. ku < n /\ n <= ku + unit BY <2>5, <3>2
    <3> QED BY <2>1, <2>2, <2>4, <2>6, <3>3, <3>4
  <2>8. CASE j # c
    <3>1. g >= 1 BY <2>1, <2>8
    <3>2. gu >= unit
      <4>1. PICK f \in Nat : g = 1 + f
        <5>1. g - 1 \in Nat /\ g = 1 + (g - 1) BY <3>1
        <5> QED BY <5>1
      <4>2. (1 + f) * unit = unit + f * unit /\ f * unit \in Nat OBVIOUS
      <4> QED BY <2>2, <4>1, <4>2
    <3>3. e[j] = ku + unit
      <4>1. j \in 0 .. c OBVIOUS
      <4> QED BY <1>3, <2>4, <2>8, <4>1
    <3>4. ku + unit <= n BY <2>5, <3>2
    <3> QED BY <2>1, <2>2, <2>4, <2>6, <3>3, <3>4
  <2> QED BY <2>7, <2>8
<1>7. e[0] = 0
  <2>1. CASE c = 0
    <3>1. unit * c = 0 BY <2>1
    <3>2. n = 0 BY <1>1, <1>2, <3>1
    <3> QED BY <1>3, <2>1, <3>2
  <2>2. CASE c # 0
    <3>1. 0 * unit = 0 /\ 0 \in 0 .. c /\ 0 # c BY <2>2
    <3> QED BY <1>3, <3>1
  <2> QED BY <2>1, <2>2
<1>8. e[c] = n
  <2>1. c \in 0 .. c OBVIOUS
  <2> QED BY <1>3, <2>1
<1>9. e \in [0 .. c -> 0 .. n]
  <2>1. ASSUME NEW j \in 0 .. c PROVE e[j] \in 0 .. n
    <3>1. CASE j = 0 BY <1>7, <3>1
    <3>2. CASE j # 0
      <4>1. j \in 1 .. c BY <3>2
      <4> QED BY <1>6, <4>1
    <3> QED BY <3>1, <3>2
  <2>2. e = [j \in 0 .. c |-> e[j]] BY <1>3
  <2> QED BY <2>1, <2>2
<1>10. ASSUME NEW j \in 1 .. c
       PROVE  cut[j].component = component /\ cut[j].offset = e[j - 1] /\ cut[j].bytes = e[j] - e[j - 1]
  BY <1>5, <1>6
<1>11. cut = [j \in 1 .. c |-> cut[j]] BY <1>5
<1>12. CutAlong(cut, component, n, unit, c, e) BY <1>6, <1>7, <1>8, <1>9, <1>10, <1>11 DEF CutAlong
<1> QED BY <1>4, <1>12

ByteNames == {"metadata", "payload"} \X Nat

\* An operation's commands carry its bytes: the j-th those up to e[j].
CommandsAlong(cmds, i, unit, whole, n, c, e) ==
    /\ whole \in [1 .. n -> ByteNames]
    /\ e \in [0 .. c -> 0 .. n] /\ e[0] = 0 /\ e[c] = n
    /\ \A j \in 1 .. c : e[j - 1] < e[j] /\ e[j] - e[j - 1] <= unit
    /\ cmds = [j \in 1 .. c |-> cmds[j]]
    /\ \A j \in 1 .. c : /\ cmds[j].logical_sequence = i /\ cmds[j].bytes = e[j] - e[j - 1]
                         /\ BytesOf(cmds[j]) = [b \in 1 .. (e[j] - e[j - 1]) |-> whole[e[j - 1] + b]]

LEMMA WholeIs ==
    ASSUME NEW component \in {"metadata", "payload"}, NEW n \in Nat
    PROVE  WholeOf(component, n) \in [1 .. n -> ByteNames]
<1>1. ASSUME NEW b \in 1 .. n PROVE <<component, b - 1>> \in ByteNames
  <2>1. b - 1 \in Nat OBVIOUS
  <2> QED BY <2>1 DEF ByteNames
<1> QED BY <1>1 DEF WholeOf

LEMMA CommandsTile ==
    ASSUME NEW d, Dims(d), NEW op, op.payload_bytes = d.payload, NEW i, NEW unit \in Nat \ {0}
    PROVE  \E n \in Nat \ {0}, c \in Nat \ {0} : \E e : CommandsAlong(Commands(d, op, i, unit), i, unit, OperationBytes(d, op), n, c, e)
<1>1. PICK md \in Nat : md = IF op.phase = "store" THEN d.metadata ELSE 0 BY DEF Dims
<1>2. PICK pl \in Nat \ {0} : pl = d.payload BY DEF Dims
<1>3. PICK s, t : s = Cut("metadata", md, unit) /\ t = Cut("payload", pl, unit) OBVIOUS
<1>4. PICK a \in Nat : \E e : CutAlong(s, "metadata", md, unit, a, e) BY <1>3, CutIs
<1>5. PICK f : CutAlong(s, "metadata", md, unit, a, f) BY <1>4
<1>6. PICK b \in Nat : \E e : CutAlong(t, "payload", pl, unit, b, e) BY <1>3, CutIs
<1>7. PICK g : CutAlong(t, "payload", pl, unit, b, g) BY <1>6
<1>8. s = IF op.phase = "store" THEN Cut("metadata", d.metadata, unit) ELSE <<>>
  <2>1. CASE op.phase = "store" BY <1>1, <1>3, <2>1
  <2>2. CASE op.phase # "store"
    <3>1. md = 0 BY <1>1, <2>2
    <3>2. a = 0
      <4> SUFFICES ASSUME a # 0 PROVE FALSE OBVIOUS
      <4>1. 1 \in 1 .. a /\ 1 \in 0 .. a OBVIOUS
      <4>2. f[1 - 1] < f[1] /\ f[1] \in 0 .. 0 /\ f[0] = 0 /\ 1 - 1 = 0 BY <1>5, <3>1, <4>1 DEF CutAlong
      <4> QED BY <4>2
    <3>3. s = [j \in 1 .. 0 |-> s[j]] BY <1>5, <3>2 DEF CutAlong
    <3>4. s = <<>> BY <3>3
    <3> QED BY <2>2, <3>4
  <2> QED BY <2>1, <2>2
<1>9. b # 0
  <2> SUFFICES ASSUME b = 0 PROVE FALSE OBVIOUS
  <2>1. g[0] = 0 /\ g[0] = pl BY <1>7 DEF CutAlong
  <2> QED BY <2>1
<1>10. PICK cut : cut = s \o t OBVIOUS
<1>11. PICK V : V = {s[k] : k \in 1 .. a} \cup {t[k] : k \in 1 .. b} OBVIOUS
<1>12. s \in [1 .. a -> V]
  <2>1. s = [j \in 1 .. a |-> s[j]] BY <1>5 DEF CutAlong
  <2> QED BY <1>11, <2>1
<1>13. t \in [1 .. b -> V]
  <2>1. t = [j \in 1 .. b |-> t[j]] BY <1>7 DEF CutAlong
  <2> QED BY <1>11, <2>1
<1>14. cut = [j \in 1 .. (a + b) |-> IF j <= a THEN s[j] ELSE t[j - a]]
  <2>1. OneAfterOther(s, t, a, b, V) BY <1>12, <1>13, ConcatIs
  <2> QED BY <1>10, <2>1 DEF OneAfterOther
<1>15. PICK cmds : cmds = Commands(d, op, i, unit) OBVIOUS
<1>16. cmds = [j \in 1 .. (a + b) |-> Command(cut, op, i, j)]
  <2>1. cmds = [j \in DOMAIN cut |-> Command(cut, op, i, j)] BY <1>2, <1>3, <1>8, <1>10, <1>15 DEF Commands, Command
  <2>2. DOMAIN cut = 1 .. (a + b) BY <1>14
  <2> QED BY <2>1, <2>2
<1>17. PICK u, v : u = WholeOf("metadata", md) /\ v = WholeOf("payload", pl) OBVIOUS
<1>18. u \in [1 .. md -> ByteNames] /\ v \in [1 .. pl -> ByteNames]
  <2>1. WholeOf("metadata", md) \in [1 .. md -> ByteNames] BY WholeIs
  <2>2. WholeOf("payload", pl) \in [1 .. pl -> ByteNames] BY WholeIs
  <2> QED BY <1>17, <2>1, <2>2
<1>19. PICK whole : whole = OperationBytes(d, op) OBVIOUS
<1>20. whole = u \o v
  <2>1. u = IF op.phase = "store" THEN WholeOf("metadata", d.metadata) ELSE <<>>
    <3>1. CASE op.phase = "store" BY <1>1, <1>17, <3>1
    <3>2. CASE op.phase # "store"
      <4>1. u = [x \in 1 .. 0 |-> <<"metadata", x - 1>>] BY <1>1, <1>17, <3>2 DEF WholeOf
      <4>2. u = <<>> BY <4>1
      <4> QED BY <3>2, <4>2
    <3> QED BY <3>1, <3>2
  <2> QED BY <1>2, <1>17, <1>19, <2>1 DEF OperationBytes
<1>21. PICK n \in Nat \ {0} : n = md + pl OBVIOUS
<1>22. whole = [x \in 1 .. n |-> IF x <= md THEN u[x] ELSE v[x - md]] /\ whole \in [1 .. n -> ByteNames]
  <2>1. OneAfterOther(u, v, md, pl, ByteNames) BY <1>18, ConcatIs
  <2> QED BY <1>20, <1>21, <2>1 DEF OneAfterOther
<1>23. PICK c \in Nat \ {0} : c = a + b BY <1>9
<1>24. PICK e : e = [j \in 0 .. c |-> IF j <= a THEN f[j] ELSE md + g[j - a]] OBVIOUS
<1>25. /\ f \in [0 .. a -> 0 .. md] /\ f[0] = 0 /\ f[a] = md
       /\ g \in [0 .. b -> 0 .. pl] /\ g[0] = 0 /\ g[b] = pl
  BY <1>5, <1>7 DEF CutAlong
<1>26. e[0] = 0 /\ e[c] = n
  <2>1. e[0] = 0
    <3>1. 0 \in 0 .. c /\ 0 <= a OBVIOUS
    <3> QED BY <1>24, <1>25, <3>1
  <2>2. e[c] = n
    <3>1. c \in 0 .. c /\ ~(c <= a) /\ c - a = b BY <1>9, <1>23
    <3> QED BY <1>21, <1>24, <1>25, <3>1
  <2> QED BY <2>1, <2>2
<1>27. e \in [0 .. c -> 0 .. n]
  <2>1. ASSUME NEW j \in 0 .. c PROVE (IF j <= a THEN f[j] ELSE md + g[j - a]) \in 0 .. n
    <3>1. CASE j <= a
      <4>1. j \in 0 .. a BY <3>1
      <4>2. f[j] \in 0 .. md BY <1>25, <4>1
      <4> QED BY <1>21, <3>1, <4>2
    <3>2. CASE ~(j <= a)
      <4>1. j - a \in 0 .. b BY <1>23, <3>2
      <4>2. g[j - a] \in 0 .. pl BY <1>25, <4>1
      <4> QED BY <1>21, <3>2, <4>2
    <3> QED BY <3>1, <3>2
  <2> QED BY <1>24, <2>1
<1>28. ASSUME NEW j \in 1 .. c
       PROVE  /\ e[j - 1] < e[j] /\ e[j] - e[j - 1] <= unit
              /\ cmds[j].logical_sequence = i /\ cmds[j].bytes = e[j] - e[j - 1]
              /\ BytesOf(cmds[j]) = [x \in 1 .. (e[j] - e[j - 1]) |-> whole[e[j - 1] + x]]
  <2>1. PICK cmd : cmd = cmds[j] OBVIOUS
  <2>2. cmd.logical_sequence = i /\ cmd.component = cut[j].component /\ cmd.offset = cut[j].offset /\ cmd.bytes = cut[j].bytes
    BY <1>16, <1>23, <2>1 DEF Command
  <2>3. j - 1 \in 0 .. c /\ j \in 0 .. c OBVIOUS
  <2>4. CASE j <= a
    <3>1. j \in 1 .. a /\ j - 1 \in 0 .. a /\ j \in 0 .. a /\ j - 1 <= a BY <2>4
    <3>2. cut[j] = s[j] BY <1>14, <1>23, <2>4
    <3>3. PICK p \in Nat, z \in Nat : p = f[j - 1] /\ z = f[j] /\ z <= md
      <4>1. f[j - 1] \in 0 .. md /\ f[j] \in 0 .. md BY <1>25, <3>1
      <4> QED BY <4>1
    <3>4. p < z /\ z - p <= unit /\ s[j].component = "metadata" /\ s[j].offset = p /\ s[j].bytes = z - p
      BY <1>5, <3>1, <3>3 DEF CutAlong
    <3>5. e[j - 1] = p /\ e[j] = z BY <1>24, <2>3, <2>4, <3>1, <3>3
    <3>6. BytesOf(cmd) = [x \in 1 .. (z - p) |-> <<"metadata", p + x - 1>>]
      <4>1. cmd.component = "metadata" /\ cmd.offset = p /\ cmd.bytes = z - p BY <2>2, <3>2, <3>4
      <4> QED BY <4>1 DEF BytesOf
    <3>7. ASSUME NEW x \in 1 .. (z - p) PROVE whole[p + x] = <<"metadata", p + x - 1>>
      <4>1. PICK y \in Nat : y = p + x /\ y \in 1 .. n /\ y <= md /\ y \in 1 .. md BY <1>21, <3>3, <3>4
      <4>2. whole[y] = u[y] BY <1>22, <4>1
      <4>3. u[y] = <<"metadata", y - 1>> BY <1>17, <4>1 DEF WholeOf
      <4> QED BY <4>1, <4>2, <4>3
    <3>8. BytesOf(cmd) = [x \in 1 .. (z - p) |-> whole[p + x]] BY <3>6, <3>7
    <3> QED BY <2>1, <2>2, <3>2, <3>4, <3>5, <3>8
  <2>5. CASE ~(j <= a)
    <3>1. PICK k \in 1 .. b : k = j - a /\ k - 1 \in 0 .. b /\ k \in 0 .. b /\ (j - 1) - a = k - 1
      <4>1. j - a \in 1 .. b BY <1>23, <2>5
      <4> QED BY <4>1
    <3>2. cut[j] = t[k] BY <1>14, <1>23, <2>5, <3>1
    <3>3. PICK p \in Nat, z \in Nat : p = g[k - 1] /\ z = g[k] /\ z <= pl
      <4>1. g[k - 1] \in 0 .. pl /\ g[k] \in 0 .. pl BY <1>25, <3>1
      <4> QED BY <4>1
    <3>4. p < z /\ z - p <= unit /\ t[k].component = "payload" /\ t[k].offset = p /\ t[k].bytes = z - p
      BY <1>7, <3>1, <3>3 DEF CutAlong
    <3>5. e[j] = md + z BY <1>24, <2>3, <2>5, <3>1, <3>3
    <3>6. e[j - 1] = md + p
      <4>1. CASE j - 1 <= a
        <5>1. j - 1 = a /\ k = 1 BY <2>5, <3>1, <4>1
        <5>2. p = 0 BY <1>25, <3>3, <5>1
        <5> QED BY <1>24, <1>25, <2>3, <4>1, <5>1, <5>2
      <4>2. CASE ~(j - 1 <= a) BY <1>24, <2>3, <3>1, <3>3, <4>2
      <4> QED BY <4>1, <4>2
    <3>7. BytesOf(cmd) = [x \in 1 .. (z - p) |-> <<"payload", p + x - 1>>]
      <4>1. cmd.component = "payload" /\ cmd.offset = p /\ cmd.bytes = z - p BY <2>2, <3>2, <3>4
      <4> QED BY <4>1 DEF BytesOf
    <3>8. ASSUME NEW x \in 1 .. (z - p) PROVE whole[(md + p) + x] = <<"payload", p + x - 1>>
      <4>1. PICK y \in Nat : y = (md + p) + x /\ y \in 1 .. n /\ ~(y <= md) /\ y - md \in 1 .. pl /\ (y - md) = p + x
        <5>1. (md + p) + x \in Nat /\ (md + p) + x \in 1 .. n /\ ~((md + p) + x <= md) BY <1>21, <3>3, <3>4
        <5>2. ((md + p) + x) - md = p + x /\ p + x \in 1 .. pl BY <3>3, <3>4
        <5> QED BY <5>1, <5>2
      <4>2. whole[y] = v[y - md] BY <1>22, <4>1
      <4>3. v[y - md] = <<"payload", (y - md) - 1>> BY <1>17, <4>1 DEF WholeOf
      <4> QED BY <4>1, <4>2, <4>3
    <3>9. BytesOf(cmd) = [x \in 1 .. (z - p) |-> whole[(md + p) + x]] BY <3>7, <3>8
    <3>10. (md + z) - (md + p) = z - p /\ md + p < md + z BY <3>4
    <3> QED BY <2>1, <2>2, <3>2, <3>4, <3>5, <3>6, <3>9, <3>10
  <2> QED BY <2>4, <2>5
<1>29. cmds = [j \in 1 .. c |-> cmds[j]] BY <1>16, <1>23
<1>30. CommandsAlong(cmds, i, unit, whole, n, c, e) BY <1>22, <1>26, <1>27, <1>28, <1>29 DEF CommandsAlong
<1> QED BY <1>15, <1>19, <1>30

Numbered(seqs, total) == \A g \in 1 .. total : \A k \in 1 .. Len(seqs[g]) : seqs[g][k].logical_sequence = g - 1
CommandsOf(seqs, i, unit, whole, n, c, e) == CommandsAlong(seqs[i], i - 1, unit, whole, n, c, e)
\* What the commands of a plan carry for one operation, when their sequences
\* lie one after the other.
LEMMA OneTiles ==
    ASSUME NEW V, NEW total \in Nat \ {0}, NEW seqs \in [1 .. total -> Seq(V)], NEW p, NEW plan, Places(seqs, total, V, p, plan),
           Numbered(seqs, total),
           NEW i \in 1 .. total, NEW unit, NEW whole, NEW n \in Nat, NEW c \in Nat \ {0}, NEW e,
           CommandsOf(seqs, i, unit, whole, n, c, e)
    PROVE  CutBytes(plan, i) = whole
<1>1. p \in [0 .. total -> Nat] /\ p[0] = 0 /\ p[i] = p[i - 1] + Len(seqs[i]) BY DEF Places
<1>2. seqs[i] = [j \in 1 .. c |-> seqs[i][j]] BY DEF CommandsOf, CommandsAlong
<1>3. Len(seqs[i]) = c
  <2> DEFINE F(j) == seqs[i][j]
  <2>1. seqs[i] = [j \in 1 .. c |-> F(j)] BY <1>2
  <2> HIDE DEF F
  <2>2. Len([j \in 1 .. c |-> F(j)]) = c OBVIOUS
  <2> QED BY <2>1, <2>2
<1>4. PICK m \in Nat, a \in Nat, z \in Nat : m = p[total] /\ a = p[i - 1] /\ z = p[i] /\ z = a + c /\ z <= m
  <2>1. total \in 0 .. total /\ i \in 0 .. total /\ i - 1 \in 0 .. total /\ i <= total OBVIOUS
  <2>2. p[i] <= p[total] BY <2>1 DEF Places
  <2>3. p[total] \in Nat /\ p[i] \in Nat /\ p[i - 1] \in Nat BY <1>1, <2>1
  <2> QED BY <1>1, <1>3, <2>2, <2>3
<1>5. z = a + c /\ z <= m BY <1>4
<1>6. plan \in [1 .. m -> V] BY <1>4 DEF Places
<1>7. ASSUME NEW k \in 1 .. m
      PROVE  IF k \in (a + 1) .. z THEN plan[k] = seqs[i][k - a] /\ plan[k].logical_sequence = i - 1
             ELSE plan[k].logical_sequence # i - 1
  <2>1. PICK g \in 1 .. total : \E x \in 1 .. Len(seqs[g]) : k = p[g - 1] + x BY <1>4 DEF Places
  <2>2. PICK x \in 1 .. Len(seqs[g]) : k = p[g - 1] + x BY <2>1
  <2>3. plan[k] = seqs[g][x] BY <2>2 DEF Places
  <2>4. plan[k].logical_sequence = g - 1 BY <2>3 DEF Numbered
  <2>5. PICK b \in Nat, y \in Nat, len \in Nat : b = p[g - 1] /\ y = p[g] /\ y = b + len /\ len = Len(seqs[g])
    <3>1. g \in 0 .. total /\ g - 1 \in 0 .. total OBVIOUS
    <3>2. p[g - 1] \in Nat /\ p[g] \in Nat BY <1>1, <3>1
    <3>3. p[g] = p[g - 1] + Len(seqs[g]) BY DEF Places
    <3>4. seqs[g] \in Seq(V) OBVIOUS
    <3>5. Len(seqs[g]) \in Nat BY <3>4
    <3> QED BY <3>2, <3>3, <3>5
  <2>6. k = b + x /\ x \in 1 .. len /\ y = b + len BY <2>2, <2>5
  <2>7. b < k /\ k <= y BY <2>6
  <2>8. CASE g = i
    <3>1. a = b /\ z = y BY <1>4, <2>5, <2>8
    <3>2. k \in (a + 1) .. z /\ x = k - a BY <2>6, <3>1
    <3> QED BY <2>3, <2>4, <2>8, <3>2
  <2>9. CASE g < i
    <3>1. g \in 0 .. total /\ i - 1 \in 0 .. total /\ g <= i - 1 BY <2>9
    <3>2. y <= a BY <1>4, <2>5, <3>1 DEF Places
    <3>3. k \notin (a + 1) .. z /\ g - 1 # i - 1 BY <2>7, <2>9, <3>2
    <3> QED BY <2>4, <3>3
  <2>10. CASE g > i
    <3>1. g - 1 \in 0 .. total /\ i \in 0 .. total /\ i <= g - 1 BY <2>10
    <3>2. z <= b BY <1>4, <2>5, <3>1 DEF Places
    <3>3. k \notin (a + 1) .. z /\ g - 1 # i - 1 BY <2>7, <2>10, <3>2
    <3> QED BY <2>4, <3>3
  <2> QED BY <2>8, <2>9, <2>10
<1>8. PICK E : E = [k \in 0 .. m |-> IF k <= a THEN 0 ELSE IF k <= z THEN e[k - a] ELSE n] OBVIOUS
<1>9. e \in [0 .. c -> 0 .. n] /\ e[0] = 0 /\ e[c] = n /\ whole \in [1 .. n -> ByteNames] BY DEF CommandsOf, CommandsAlong
<1>10. E \in [0 .. m -> 0 .. n]
  <2>1. ASSUME NEW k \in 0 .. m PROVE (IF k <= a THEN 0 ELSE IF k <= z THEN e[k - a] ELSE n) \in 0 .. n
    <3>1. CASE k <= a BY <3>1
    <3>2. CASE ~(k <= a) /\ k <= z
      <4>1. k - a \in 0 .. c BY <1>5, <3>2
      <4> QED BY <1>9, <3>2, <4>1
    <3>3. CASE ~(k <= a) /\ ~(k <= z) BY <3>3
    <3> QED BY <3>1, <3>2, <3>3
  <2> QED BY <1>8, <2>1
<1>11. E[0] = 0 /\ E[m] = n
  <2>1. 0 \in 0 .. m /\ 0 <= a /\ m \in 0 .. m /\ ~(m <= a) BY <1>4
  <2>2. E[0] = 0 BY <1>8, <2>1
  <2>3. CASE m <= z
    <3>1. m - a = c BY <1>4, <2>3
    <3> QED BY <1>8, <1>9, <2>1, <2>2, <2>3, <3>1
  <2>4. CASE ~(m <= z) BY <1>8, <2>1, <2>2, <2>4
  <2> QED BY <2>3, <2>4
<1>12. PICK cuts : cuts = [k \in DOMAIN plan |-> IF plan[k].logical_sequence = i - 1 THEN BytesOf(plan[k]) ELSE <<>>] OBVIOUS
<1>13. cuts = [k \in 1 .. m |-> IF plan[k].logical_sequence = i - 1 THEN BytesOf(plan[k]) ELSE <<>>] BY <1>6, <1>12
<1>14. ASSUME NEW k \in 1 .. m
       PROVE  E[k - 1] <= E[k] /\ cuts[k] = [b \in 1 .. (E[k] - E[k - 1]) |-> whole[E[k - 1] + b]]
  <2>1. k - 1 \in 0 .. m /\ k \in 0 .. m OBVIOUS
  <2>2. E[k - 1] = (IF k - 1 <= a THEN 0 ELSE IF k - 1 <= z THEN e[(k - 1) - a] ELSE n) BY <1>8, <2>1
  <2>3. E[k] = (IF k <= a THEN 0 ELSE IF k <= z THEN e[k - a] ELSE n) BY <1>8, <2>1
  <2>4. CASE k \in (a + 1) .. z
    <3>1. PICK j \in 1 .. c : j = k - a /\ (k - 1) - a = j - 1 /\ j - 1 \in 0 .. c /\ j \in 0 .. c
      <4>1. k - a \in 1 .. c /\ (k - 1) - a = (k - a) - 1 BY <1>5, <2>4
      <4> QED BY <4>1
    <3>2. E[k] = e[j] BY <2>3, <2>4, <3>1
    <3>3. E[k - 1] = e[j - 1]
      <4>1. CASE k - 1 <= a
        <5>1. j = 1 BY <2>4, <3>1, <4>1
        <5> QED BY <1>9, <2>2, <4>1, <5>1
      <4>2. CASE ~(k - 1 <= a) BY <2>2, <2>4, <3>1, <4>2
      <4> QED BY <4>1, <4>2
    <3>4. plan[k] = seqs[i][j] /\ plan[k].logical_sequence = i - 1 BY <1>7, <2>4, <3>1
    <3>5. e[j - 1] < e[j] /\ BytesOf(seqs[i][j]) = [b \in 1 .. (e[j] - e[j - 1]) |-> whole[e[j - 1] + b]] BY DEF CommandsOf, CommandsAlong
    <3>6. e[j - 1] \in Nat /\ e[j] \in Nat
      <4>1. e[j - 1] \in 0 .. n /\ e[j] \in 0 .. n BY <1>9, <3>1
      <4> QED BY <4>1
    <3>7. E[k - 1] <= E[k] BY <3>2, <3>3, <3>5, <3>6
    <3>8. cuts[k] = BytesOf(seqs[i][j]) BY <1>13, <3>4
    <3> QED BY <3>2, <3>3, <3>5, <3>7, <3>8
  <2>5. CASE k \notin (a + 1) .. z
    <3>1. cuts[k] = <<>> BY <1>7, <1>13, <2>5
    <3>2. E[k] = E[k - 1] /\ E[k] \in Nat
      <4>1. CASE k <= a
        <5>1. k - 1 <= a BY <4>1
        <5> QED BY <2>2, <2>3, <4>1, <5>1
      <4>2. CASE k > z
        <5>1. E[k] = n BY <1>4, <2>3, <4>2
        <5>2. CASE k - 1 <= z
          <6>1. ~(k - 1 <= a) /\ (k - 1) - a = c BY <1>5, <4>2, <5>2
          <6> QED BY <1>9, <2>2, <5>1, <5>2, <6>1
        <5>3. CASE ~(k - 1 <= z)
          <6>1. ~(k - 1 <= a) BY <1>4, <5>3
          <6> QED BY <2>2, <5>1, <5>3, <6>1
        <5> QED BY <5>2, <5>3
      <4> QED BY <1>4, <2>5, <4>1, <4>2
    <3>3. 1 .. (E[k] - E[k - 1]) = {}
      <4>1. E[k] - E[k - 1] = 0 BY <3>2
      <4> QED BY <4>1
    <3>4. [b \in 1 .. (E[k] - E[k - 1]) |-> whole[E[k - 1] + b]] = <<>>
      <4> DEFINE F(b) == whole[E[k - 1] + b]
      <4> HIDE DEF F
      <4>1. [b \in {} |-> F(b)] = <<>> OBVIOUS
      <4>2. [b \in 1 .. (E[k] - E[k - 1]) |-> F(b)] = <<>> BY <3>3, <4>1
      <4> QED BY <4>2 DEF F
    <3> QED BY <3>1, <3>2, <3>4
  <2> QED BY <2>4, <2>5
<1>15. cuts = [k \in 1 .. m |-> [b \in 1 .. (E[k] - E[k - 1]) |-> whole[E[k - 1] + b]]]
  <2> DEFINE F(k) == IF plan[k].logical_sequence = i - 1 THEN BytesOf(plan[k]) ELSE <<>>
             G(k) == [b \in 1 .. (E[k] - E[k - 1]) |-> whole[E[k - 1] + b]]
  <2>1. cuts = [k \in 1 .. m |-> F(k)] BY <1>13
  <2>2. \A k \in 1 .. m : cuts[k] = G(k) BY <1>14
  <2> HIDE DEF F, G
  <2>3. cuts = [k \in 1 .. m |-> G(k)] BY <2>1, <2>2
  <2> QED BY <2>3 DEF G
<1>16. m \in Nat \ {0} BY <1>4
<1>17. FlattenSeq(cuts) = whole
  <2>1. \A k \in 1 .. m : E[k - 1] <= E[k] BY <1>14
  <2>2. cuts = CutsOf(whole, E, m) BY <1>15 DEF CutsOf
  <2>3. Rises(E, m, n) BY <1>10, <1>11, <2>1 DEF Rises
  <2>4. FlattenSeq(CutsOf(whole, E, m)) = whole BY <1>9, <1>16, <2>3, CutTogether
  <2> QED BY <2>2, <2>4
<1> QED BY <1>12, <1>17 DEF CutBytes

LEMMA DimensionsAre ==
    ASSUME NEW d \in Dimensions
    PROVE  Dims(d)
<1>1. \A f \in {"chunks", "streams", "ranks", "iters", "payload"} : d[f] \in Nat \ {0} BY DocumentsAssumption
<1>2. d.chunks \in Nat \ {0} /\ d.streams \in Nat \ {0} /\ d.ranks \in Nat \ {0} /\ d.iters \in Nat \ {0} /\ d.payload \in Nat \ {0}
  BY <1>1
<1>3. d.warmup \in Nat /\ d.metadata \in Nat BY DocumentsAssumption
<1> QED BY <1>2, <1>3 DEF Dims

\* How many operations the generator builds.
LEMMA BuiltMany ==
    ASSUME NEW d, Dims(d)
    PROVE  \E total \in Nat \ {0} : /\ total = PassesOf(d) * (2 * InPhase(d))
                                    /\ build_kv_offload_intent(d) = [i \in 1 .. total |-> InIntentAt(d, i - 1)]
<1>1. PICK t \in Nat \ {0}, n \in Nat \ {0} : t = PassesOf(d) /\ n = InPhase(d) BY DimsAre
<1>2. PICK total \in Nat \ {0} : total = t * (2 * n)
  <2>1. t * (2 * n) \in Nat \ {0} OBVIOUS
  <2> QED BY <2>1
<1>3. build_kv_offload_intent(d) = [i \in 1 .. PassesOf(d) * (2 * InPhase(d)) |-> InIntentAt(d, i - 1)] BY BuiltIs
<1>4. total = PassesOf(d) * (2 * InPhase(d)) BY <1>1, <1>2
<1> QED BY <1>3, <1>4

LEMMA Lowered ==
    ASSUME dims \in Dimensions, limits \in LimitSets
    PROVE  LoweringTiles
<1>1. PICK d : d = dims /\ Dims(d) BY DimensionsAre
<1>2. PICK unit \in Nat \ {0} : unit = Min(limits) /\ \A l \in limits : unit <= l
  <2>1. limits \subseteq Nat \ {0} /\ limits # {} BY DocumentsAssumption
  <2>2. Min(limits) \in limits /\ \A l \in limits : Min(limits) <= l
    <3>1. limits \in SUBSET Nat BY <2>1
    <3> QED BY <2>1, <3>1, MinOfSet
  <2> QED BY <2>1, <2>2
<1>3. PICK ops : ops = build_kv_offload_intent(d) OBVIOUS
<1>4. PICK total \in Nat \ {0} : ops = [i \in 1 .. total |-> InIntentAt(d, i - 1)] BY <1>1, <1>3, BuiltMany
<1>5. validate_intent(d, ops) BY <1>1, <1>3, BuiltValidates
<1>6. DOMAIN ops = 1 .. total BY <1>4
<1>7. PICK plan : plan = lower_intent(d, ops, limits) OBVIOUS
<1>8. PICK seqs : seqs = [i \in 1 .. total |-> Commands(d, ops[i], i - 1, unit)] OBVIOUS
<1>9. plan = FlattenSeq(seqs) BY <1>2, <1>6, <1>7, <1>8 DEF lower_intent
<1>10. ASSUME NEW i \in 1 .. total
       PROVE  \E n \in Nat \ {0}, c \in Nat \ {0} : \E e : CommandsAlong(seqs[i], i - 1, unit, OperationBytes(d, ops[i]), n, c, e)
  <2>1. PICK op : op = ops[i] OBVIOUS
  <2>2. op.payload_bytes = d.payload BY <1>5, <1>6, <2>1 DEF validate_intent, ValidAt
  <2>3. PICK g : g = i - 1 OBVIOUS
  <2>4. \E n \in Nat \ {0}, c \in Nat \ {0} : \E e : CommandsAlong(Commands(d, op, g, unit), g, unit, OperationBytes(d, op), n, c, e)
    BY <1>1, <2>2, CommandsTile
  <2>5. seqs[i] = Commands(d, op, g, unit) BY <1>8, <2>1, <2>3
  <2> QED BY <2>1, <2>3, <2>4, <2>5
<1>11. PICK V : V = UNION {{seqs[i][k] : k \in 1 .. Len(seqs[i])} : i \in 1 .. total} OBVIOUS
<1>12. ASSUME NEW i \in 1 .. total
       PROVE  /\ seqs[i] \in Seq(V)
              /\ \A k \in 1 .. Len(seqs[i]) : /\ seqs[i][k].logical_sequence = i - 1
                                              /\ seqs[i][k].bytes >= 1 /\ \A l \in limits : seqs[i][k].bytes <= l
  <2>1. PICK n \in Nat \ {0}, c \in Nat \ {0} : \E e : CommandsAlong(seqs[i], i - 1, unit, OperationBytes(d, ops[i]), n, c, e) BY <1>10
  <2>2. PICK e : CommandsAlong(seqs[i], i - 1, unit, OperationBytes(d, ops[i]), n, c, e) BY <2>1
  <2>3. PICK s : s = seqs[i] OBVIOUS
  <2>4. s = [j \in 1 .. c |-> s[j]] BY <2>2, <2>3 DEF CommandsAlong
  <2>5. Len(s) = c
    <3> DEFINE F(j) == s[j]
    <3>1. s = [j \in 1 .. c |-> F(j)] BY <2>4
    <3> HIDE DEF F
    <3>2. Len([j \in 1 .. c |-> F(j)]) = c OBVIOUS
    <3> QED BY <3>1, <3>2
  <2>6. \A j \in 1 .. c : s[j] \in V BY <1>11, <2>3, <2>5
  <2>7. s \in [1 .. c -> V] BY <2>4, <2>6
  <2>8. s \in Seq(V) BY <2>7, SeqDef
  <2>9. ASSUME NEW k \in 1 .. c PROVE s[k].logical_sequence = i - 1 /\ s[k].bytes >= 1 /\ \A l \in limits : s[k].bytes <= l
    <3>1. s[k].logical_sequence = i - 1 /\ s[k].bytes = e[k] - e[k - 1] /\ e[k - 1] < e[k] /\ e[k] - e[k - 1] <= unit
      BY <2>2, <2>3 DEF CommandsAlong
    <3>2. PICK x \in Nat, y \in Nat : x = e[k - 1] /\ y = e[k]
      <4>1. e \in [0 .. c -> 0 .. n] BY <2>2 DEF CommandsAlong
      <4>2. k \in 0 .. c /\ k - 1 \in 0 .. c OBVIOUS
      <4>3. e[k - 1] \in 0 .. n /\ e[k] \in 0 .. n BY <4>1, <4>2
      <4> QED BY <4>3
    <3>3. PICK b \in Nat : b = s[k].bytes /\ b >= 1 /\ b <= unit
      <4>1. x < y /\ y - x <= unit /\ s[k].bytes = y - x BY <3>1, <3>2
      <4>2. y - x \in Nat /\ y - x >= 1 BY <4>1
      <4> QED BY <4>1, <4>2
    <3>4. \A l \in limits : b <= l
      <4>1. \A l \in limits : l \in Nat BY DocumentsAssumption
      <4>2. b <= unit BY <3>3
      <4> QED BY <1>2, <4>1, <4>2
    <3> QED BY <3>1, <3>3, <3>4
  <2> QED BY <2>3, <2>5, <2>8, <2>9
<1>13. seqs \in [1 .. total -> Seq(V)]
  <2>1. \A i \in 1 .. total : seqs[i] \in Seq(V) BY <1>12
  <2>2. seqs = [i \in 1 .. total |-> seqs[i]] BY <1>8
  <2> QED BY <2>1, <2>2
<1>14. PICK p : Places(seqs, total, V, p, plan) BY <1>9, <1>13, FlattenPlaces
<1>15. ASSUME NEW k \in DOMAIN plan PROVE plan[k].bytes >= 1 /\ \A l \in limits : plan[k].bytes <= l
  <2>1. DOMAIN plan = 1 .. p[total] BY <1>14 DEF Places
  <2>2. PICK i \in 1 .. total : \E x \in 1 .. Len(seqs[i]) : k = p[i - 1] + x BY <1>14, <2>1 DEF Places
  <2>3. PICK x \in 1 .. Len(seqs[i]) : k = p[i - 1] + x BY <2>2
  <2>4. plan[k] = seqs[i][x] BY <1>14, <2>3 DEF Places
  <2> QED BY <1>12, <2>4
<1>16. ASSUME NEW i \in DOMAIN ops
       PROVE  CutBytes(plan, i) = OperationBytes(d, ops[i])
  <2>1. i \in 1 .. total BY <1>6
  <2>2. PICK n \in Nat \ {0}, c \in Nat \ {0} : \E e : CommandsAlong(seqs[i], i - 1, unit, OperationBytes(d, ops[i]), n, c, e) BY <1>10, <2>1
  <2>3. PICK e : CommandsAlong(seqs[i], i - 1, unit, OperationBytes(d, ops[i]), n, c, e) BY <2>2
  <2>4. Numbered(seqs, total) BY <1>12 DEF Numbered
  <2>5. PICK whole : whole = OperationBytes(d, ops[i]) OBVIOUS
  <2>6. CommandsAlong(seqs[i], i - 1, unit, whole, n, c, e) /\ n \in Nat BY <2>3, <2>5
  <2>7. CommandsOf(seqs, i, unit, whole, n, c, e) BY <2>6 DEF CommandsOf
  <2>8. CutBytes(plan, i) = whole BY <1>13, <1>14, <2>1, <2>4, <2>6, <2>7, OneTiles
  <2> QED BY <2>5, <2>8
<1>17. validate_target_plan(plan, d, ops, limits) BY <1>5, <1>7 DEF validate_target_plan
<1> QED BY <1>1, <1>3, <1>7, <1>15, <1>16, <1>17 DEF LoweringTiles

----------------------------------------------------------------------------
(* The order of the operations.                                            *)

\* The largest of a set of places.
LEMMA MaxOfSet ==
    ASSUME NEW m \in Nat, NEW S \in SUBSET (1 .. m), S # {}
    PROVE  Max(S) \in S /\ \A y \in S : Max(S) >= y
<1>1. PICK T : T = {m - x : x \in S} OBVIOUS
<1>2. T \in SUBSET Nat /\ T # {}
  <2>1. \A x \in S : m - x \in Nat
    <3>1. \A x \in S : x \in 1 .. m OBVIOUS
    <3> QED BY <3>1
  <2> QED BY <1>1, <2>1
<1>3. PICK t \in T : \A y \in T : t <= y BY <1>2, SmallestNat
<1>4. PICK x \in S : t = m - x BY <1>1
<1>5. \A y \in S : x >= y
  <2> SUFFICES ASSUME NEW y \in S PROVE x >= y OBVIOUS
  <2>1. m - y \in T BY <1>1
  <2>2. m - x <= m - y BY <1>3, <1>4, <2>1
  <2> QED BY <2>2
<1> QED BY <1>5 DEF Max

OpAt(d, op, it, h, s, y) ==
    op.pass = it /\ op.phase = NameOf(h) /\ op.stream = s /\ op.logical_object = ObjectName(it, s, y \div d.ranks, y % d.ranks)

\* The digits of the place i: its phase's number, 2 * it + h, and its place
\* u in the phase.
Digits(d, i, it, h, s, y, u) ==
    /\ it \in Nat /\ h \in 0 .. 1 /\ s \in 0 .. d.streams - 1 /\ y \in 0 .. InStream(d) - 1
    /\ u \in 0 .. InPhase(d) - 1 /\ i = (2 * it + h) * InPhase(d) + u + 1 /\ u = s * InStream(d) + y

OpLies(d, ops, i, it, h, s, y, u) == Digits(d, i, it, h, s, y, u) /\ OpAt(d, ops[i], it, h, s, y)

LEMMA OpsLie ==
    ASSUME NEW d, Dims(d), NEW ops, NEW total \in Nat \ {0}, total = PassesOf(d) * (2 * InPhase(d)),
           ops = [k \in 1 .. total |-> InIntentAt(d, k - 1)], NEW i \in 1 .. total
    PROVE  \E it, h, s, y, u : OpLies(d, ops, i, it, h, s, y, u)
<1>1. PICK p \in Nat \ {0}, m \in Nat \ {0}, n \in Nat \ {0} : p = InPhase(d) /\ m = InStream(d) /\ n = d.streams /\ p = n * m
  BY DimsAre DEF Dims
<1>2. PICK x \in Nat : x = i - 1 OBVIOUS
<1>3. PICK it, h, s, y : Lies(d, x, it, h, s, y) BY <1>2, HasPlace
<1>4. it \in Nat /\ h \in 0 .. 1 /\ s \in 0 .. n - 1 /\ y \in 0 .. m - 1
  <2>1. PassesOf(d) \in Nat BY DimsAre
  <2> QED BY <1>1, <1>3, <2>1 DEF Lies
<1>5. PICK u \in 0 .. p - 1 : u = s * m + y BY <1>1, <1>3 DEF Lies
<1>6. x = (2 * it + h) * p + u
  <2>1. x = ((it * 2 + h) * n + s) * m + y BY <1>1, <1>3 DEF Lies, PlaceOf
  <2>2. ((it * 2 + h) * n + s) * m + y = (2 * it + h) * (n * m) + (s * m + y) BY <1>4
  <2> QED BY <1>1, <1>5, <2>1, <2>2
<1>7. PICK v \in Nat : v = (2 * it + h) * p
  <2>1. (2 * it + h) * p \in Nat BY <1>4
  <2> QED BY <2>1
<1>8. i = v + u + 1 BY <1>2, <1>6, <1>7
<1>9. OpAt(d, ops[i], it, h, s, y)
  <2>1. ops[i] = InIntentAt(d, x) BY <1>2
  <2>2. ops[i] = BuiltOperation(d, it, NameOf(h), s, y \div d.ranks, y % d.ranks) BY <1>3, <2>1 DEF Lies, InStreamAt
  <2> QED BY <2>2 DEF BuiltOperation, OpAt
<1>10. OpLies(d, ops, i, it, h, s, y, u) BY <1>1, <1>4, <1>5, <1>7, <1>8, <1>9 DEF OpLies, Digits
<1> QED BY <1>10

\* The digits of a place are its own.
LEMMA DigitsUnique ==
    ASSUME NEW d, Dims(d), NEW i \in Nat, NEW it, NEW h, NEW s, NEW y, NEW u, Digits(d, i, it, h, s, y, u),
           NEW it2, NEW h2, NEW s2, NEW y2, NEW u2, Digits(d, i, it2, h2, s2, y2, u2)
    PROVE  it2 = it /\ h2 = h /\ s2 = s /\ y2 = y /\ u2 = u
<1>1. PICK p \in Nat \ {0}, m \in Nat \ {0} : p = InPhase(d) /\ m = InStream(d) BY DimsAre
<1>2. PICK a \in Nat, a2 \in Nat : a = 2 * it + h /\ a2 = 2 * it2 + h2
  <2>1. 2 * it + h \in Nat /\ 2 * it2 + h2 \in Nat BY DEF Digits
  <2> QED BY <2>1
<1>3. /\ it \in Nat /\ h \in 0 .. 1 /\ it2 \in Nat /\ h2 \in 0 .. 1 /\ u \in 0 .. p - 1 /\ u2 \in 0 .. p - 1
      /\ s \in 0 .. d.streams - 1 /\ s2 \in 0 .. d.streams - 1 /\ y \in 0 .. m - 1 /\ y2 \in 0 .. m - 1
      /\ i = a * p + u + 1 /\ i = a2 * p + u2 + 1 /\ u = s * m + y /\ u2 = s2 * m + y2
  BY <1>1, <1>2 DEF Digits
<1>4. a = a2 /\ u = u2
  <2>1. u \in 0 .. p - 1 /\ u2 \in 0 .. p - 1 BY <1>3
  <2>2. (a * p + u) \div p = a /\ (a * p + u) % p = u BY <2>1, Quotient
  <2>3. (a2 * p + u2) \div p = a2 /\ (a2 * p + u2) % p = u2 BY <2>1, Quotient
  <2>4. a * p + u = a2 * p + u2
    <3>1. a * p \in Nat /\ a2 * p \in Nat OBVIOUS
    <3> QED BY <1>3, <3>1
  <2> QED BY <2>2, <2>3, <2>4
<1>5. it = it2 /\ h = h2 BY <1>2, <1>3, <1>4
<1>6. s = s2 /\ y = y2
  <2>1. s \in Nat /\ s2 \in Nat /\ y \in 0 .. m - 1 /\ y2 \in 0 .. m - 1
    <3>1. d.streams \in Nat BY DEF Dims
    <3> QED BY <1>3, <3>1
  <2>2. (s * m + y) \div m = s /\ (s * m + y) % m = y BY <2>1, Quotient
  <2>3. (s2 * m + y2) \div m = s2 /\ (s2 * m + y2) % m = y2 BY <2>1, Quotient
  <2> QED BY <1>3, <1>4, <2>2, <2>3
<1> QED BY <1>4, <1>5, <1>6

\* The phases follow one another, and every operation but those of the first
\* phase has one in the phase before; before a load it is the object's store.
PhasesFollow(ops, total) ==
    /\ \A i \in 1 .. total : /\ PhaseNumber(ops[i]) \in Nat /\ ops[i].pass \in Nat /\ ops[i].stream \in Nat
                             /\ ops[i].phase \in {"store", "load"}
    /\ \A i, j \in 1 .. total : i <= j => PhaseNumber(ops[i]) <= PhaseNumber(ops[j])
    /\ \A j \in 1 .. total : PhaseNumber(ops[j]) >= 1 =>
         \E k \in 1 .. j - 1 : /\ PhaseNumber(ops[k]) = PhaseNumber(ops[j]) - 1
                               /\ ops[k].logical_object = ops[j].logical_object \/ ops[j].phase = "store"

LEMMA NumberIs ==
    ASSUME NEW d, Dims(d), NEW ops, NEW i \in Nat, NEW it, NEW h, NEW s, NEW y, NEW u, OpLies(d, ops, i, it, h, s, y, u)
    PROVE  /\ PhaseNumber(ops[i]) = 2 * it + h /\ PhaseNumber(ops[i]) \in Nat
           /\ ops[i].pass = it /\ ops[i].stream = s /\ ops[i].phase = NameOf(h) /\ it \in Nat /\ h \in 0 .. 1 /\ s \in Nat
<1>1. it \in Nat /\ h \in 0 .. 1 /\ s \in 0 .. d.streams - 1 BY DEF OpLies, Digits
<1>2. d.streams \in Nat BY DEF Dims
<1>3. ops[i].pass = it /\ ops[i].stream = s /\ ops[i].phase = NameOf(h) BY DEF OpLies, OpAt
<1>4. (IF NameOf(h) = "store" THEN 0 ELSE 1) = h
  <2>1. CASE h = 0 BY <2>1 DEF NameOf
  <2>2. CASE h = 1 BY <2>2 DEF NameOf
  <2> QED BY <1>1, <2>1, <2>2
<1>5. PhaseNumber(ops[i]) = 2 * it + h BY <1>3, <1>4 DEF PhaseNumber
<1> QED BY <1>1, <1>2, <1>3, <1>5

LEMMA PhasesRun ==
    ASSUME NEW d, Dims(d), NEW ops, NEW total \in Nat \ {0}, total = PassesOf(d) * (2 * InPhase(d)),
           ops = [k \in 1 .. total |-> InIntentAt(d, k - 1)]
    PROVE  PhasesFollow(ops, total)
<1>1. \A i \in 1 .. total : \E it, h, s, y, u : OpLies(d, ops, i, it, h, s, y, u) BY OpsLie
<1>2. PICK p \in Nat \ {0} : p = InPhase(d) BY DimsAre
<1>3. ASSUME NEW i \in 1 .. total
      PROVE  PhaseNumber(ops[i]) \in Nat /\ ops[i].pass \in Nat /\ ops[i].stream \in Nat /\ ops[i].phase \in {"store", "load"}
  <2>1. PICK it, h, s, y, u : OpLies(d, ops, i, it, h, s, y, u) BY <1>1
  <2> QED BY <2>1, NumberIs DEF NameOf
<1>4. ASSUME NEW i \in 1 .. total, NEW j \in 1 .. total, i <= j PROVE PhaseNumber(ops[i]) <= PhaseNumber(ops[j])
  <2>1. PICK it, h, s, y, u : OpLies(d, ops, i, it, h, s, y, u) BY <1>1
  <2>2. PICK it2, h2, s2, y2, u2 : OpLies(d, ops, j, it2, h2, s2, y2, u2) BY <1>1
  <2>3. PICK a \in Nat, b \in Nat : a = PhaseNumber(ops[i]) /\ b = PhaseNumber(ops[j]) BY <1>3
  <2>4. a = 2 * it + h /\ b = 2 * it2 + h2
    <3>1. i \in Nat /\ j \in Nat OBVIOUS
    <3>2. PhaseNumber(ops[i]) = 2 * it + h BY <2>1, <3>1, NumberIs
    <3>3. PhaseNumber(ops[j]) = 2 * it2 + h2 BY <2>2, <3>1, NumberIs
    <3> QED BY <2>3, <3>2, <3>3
  <2>5. u \in 0 .. p - 1 /\ u2 \in 0 .. p - 1 /\ i = a * p + u + 1 /\ j = b * p + u2 + 1
    BY <1>2, <2>1, <2>2, <2>4 DEF OpLies, Digits
  <2>6. a <= b
    <3> SUFFICES ASSUME a > b PROVE FALSE OBVIOUS
    <3>1. PICK g \in Nat : a = b + 1 + g
      <4>1. a - b - 1 \in Nat /\ a = b + 1 + (a - b - 1) OBVIOUS
      <4> QED BY <4>1
    <3>2. (b + 1 + g) * p = b * p + p + g * p OBVIOUS
    <3>3. PICK bp \in Nat, gp \in Nat : bp = b * p /\ gp = g * p
      <4>1. b * p \in Nat /\ g * p \in Nat OBVIOUS
      <4> QED BY <4>1
    <3>4. a * p = bp + p + gp BY <3>1, <3>2, <3>3
    <3>5. i = bp + p + gp + u + 1 /\ j = bp + u2 + 1 BY <2>5, <3>3, <3>4
    <3> QED BY <1>4, <2>5, <3>5
  <2> QED BY <2>3, <2>6
<1>5. ASSUME NEW j \in 1 .. total, PhaseNumber(ops[j]) >= 1
      PROVE  \E k \in 1 .. j - 1 : /\ PhaseNumber(ops[k]) = PhaseNumber(ops[j]) - 1
                                   /\ ops[k].logical_object = ops[j].logical_object \/ ops[j].phase = "store"
  <2>1. PICK it, h, s, y, u : OpLies(d, ops, j, it, h, s, y, u) BY <1>1
  <2>2. it \in Nat /\ h \in 0 .. 1 /\ PhaseNumber(ops[j]) = 2 * it + h /\ ops[j].phase = NameOf(h) BY <2>1, NumberIs
  <2>3. PICK itB \in Nat, hB \in 0 .. 1 : 2 * it + h = 2 * itB + hB + 1 /\ (h = 1 => itB = it)
    <3>1. CASE h = 1
      <4>1. 2 * it + h = 2 * it + 0 + 1 /\ 0 \in 0 .. 1 BY <2>2, <3>1
      <4> QED BY <2>2, <4>1
    <3>2. CASE h = 0
      <4>1. it >= 1 BY <1>5, <2>2, <3>2
      <4>2. PICK f \in Nat : it = f + 1
        <5>1. it - 1 \in Nat /\ it = (it - 1) + 1 BY <2>2, <4>1
        <5> QED BY <5>1
      <4>3. 2 * it + h = 2 * f + 1 + 1 /\ 1 \in 0 .. 1 /\ ~(h = 1) BY <3>2, <4>2
      <4> QED BY <4>3
    <3> QED BY <2>2, <3>1, <3>2
  <2>4. PICK b \in Nat, bp \in Nat : b = 2 * itB + hB /\ bp = b * p
    <3>1. PICK b \in Nat : b = 2 * itB + hB BY <2>3
    <3>2. b * p \in Nat OBVIOUS
    <3> QED BY <3>1, <3>2
  <2>5. u \in 0 .. p - 1 /\ j = (2 * it + h) * p + u + 1 BY <1>2, <2>1 DEF OpLies, Digits
  <2>6. j = bp + p + u + 1
    <3>1. (b + 1) * p = b * p + p OBVIOUS
    <3>2. 2 * it + h = b + 1 BY <2>3, <2>4
    <3> QED BY <2>4, <2>5, <3>1, <3>2
  <2>7. PICK k \in 1 .. j - 1 : k = bp + u + 1 /\ k \in 1 .. total
    <3>1. bp + u + 1 \in 1 .. j - 1 /\ bp + u + 1 \in 1 .. total BY <2>5, <2>6
    <3> QED BY <3>1
  <2>8. PICK it2, h2, s2, y2, u2 : OpLies(d, ops, k, it2, h2, s2, y2, u2) BY <1>1, <2>7
  <2>9. Digits(d, k, itB, hB, s, y, u)
    <3>1. k = (2 * itB + hB) * p + u + 1 BY <2>4, <2>7
    <3> QED BY <1>2, <2>1, <2>3, <3>1 DEF OpLies, Digits
  <2>10. it2 = itB /\ h2 = hB /\ s2 = s /\ y2 = y
    <3>1. Digits(d, k, it2, h2, s2, y2, u2) /\ k \in Nat BY <2>7, <2>8 DEF OpLies
    <3> QED BY <2>9, <3>1, DigitsUnique
  <2>11. PhaseNumber(ops[k]) = 2 * itB + hB
    <3>1. k \in Nat BY <2>7
    <3>2. PhaseNumber(ops[k]) = 2 * it2 + h2 BY <2>8, <3>1, NumberIs
    <3> QED BY <2>10, <3>2
  <2>12. PhaseNumber(ops[k]) = PhaseNumber(ops[j]) - 1
    <3>1. PhaseNumber(ops[j]) = (2 * itB + hB) + 1 BY <2>2, <2>3
    <3>2. 2 * itB + hB \in Nat BY <2>3
    <3> QED BY <2>11, <3>1, <3>2
  <2>13. ops[k].logical_object = ops[j].logical_object \/ ops[j].phase = "store"
    <3>1. CASE h = 1
      <4>1. it2 = it BY <2>3, <2>10, <3>1
      <4>2. ops[k].logical_object = ObjectName(it2, s2, y2 \div d.ranks, y2 % d.ranks) BY <2>8 DEF OpLies, OpAt
      <4>3. ops[j].logical_object = ObjectName(it, s, y \div d.ranks, y % d.ranks) BY <2>1 DEF OpLies, OpAt
      <4> QED BY <2>10, <4>1, <4>2, <4>3
    <3>2. CASE h = 0 BY <2>2, <3>2 DEF NameOf
    <3> QED BY <2>2, <3>1, <3>2
  <2> QED BY <2>12, <2>13
<1> QED BY <1>3, <1>4, <1>5 DEF PhasesFollow

\* The dependencies are the last one before in the phase and the stream, and
\* the phase before.
LEMMA DepsAre ==
    ASSUME NEW ops, NEW total \in Nat \ {0}, PhasesFollow(ops, total), NEW j \in 1 .. total
    PROVE  V1Deps(ops, j) = PrevInStream(ops, j) \cup {k \in 1 .. j - 1 : PhaseNumber(ops[k]) = PhaseNumber(ops[j]) - 1}
<1>1. ASSUME NEW k \in 1 .. j - 1
      PROVE  (\/ ops[j].phase = "load" /\ ops[k].phase = "store" /\ ops[k].pass = ops[j].pass
              \/ ops[j].phase = "store" /\ ops[k].phase = "load" /\ ops[k].pass = ops[j].pass - 1)
             <=> PhaseNumber(ops[k]) = PhaseNumber(ops[j]) - 1
  <2>1. PICK a \in Nat, b \in Nat : a = ops[k].pass /\ b = ops[j].pass
    <3>1. k \in 1 .. total OBVIOUS
    <3> QED BY <3>1 DEF PhasesFollow
  <2>2. ops[k].phase \in {"store", "load"} /\ ops[j].phase \in {"store", "load"}
    <3>1. k \in 1 .. total OBVIOUS
    <3> QED BY <3>1 DEF PhasesFollow
  <2>3. PhaseNumber(ops[k]) = 2 * a + (IF ops[k].phase = "store" THEN 0 ELSE 1) BY <2>1 DEF PhaseNumber
  <2>4. PhaseNumber(ops[j]) = 2 * b + (IF ops[j].phase = "store" THEN 0 ELSE 1) BY <2>1 DEF PhaseNumber
  <2>5. CASE ops[k].phase = "store" /\ ops[j].phase = "store" BY <2>1, <2>3, <2>4, <2>5
  <2>6. CASE ops[k].phase = "store" /\ ops[j].phase = "load"
    <3>1. PhaseNumber(ops[k]) = 2 * a /\ PhaseNumber(ops[j]) = 2 * b + 1 BY <2>3, <2>4, <2>6
    <3>2. 2 * a = (2 * b + 1) - 1 <=> a = b OBVIOUS
    <3> QED BY <2>1, <2>6, <3>1, <3>2
  <2>7. CASE ops[k].phase = "load" /\ ops[j].phase = "store" BY <2>1, <2>3, <2>4, <2>7
  <2>8. CASE ops[k].phase = "load" /\ ops[j].phase = "load" BY <2>1, <2>3, <2>4, <2>8
  <2> QED BY <2>2, <2>5, <2>6, <2>7, <2>8
<1> QED BY <1>1 DEF V1Deps

\* Those before it in its stream and phase.
SameBefore(ops, j) == {i \in 1 .. j - 1 : PhaseNumber(ops[i]) = PhaseNumber(ops[j]) /\ ops[i].stream = ops[j].stream}
LEMMA PrevIs ==
    ASSUME NEW ops, NEW total \in Nat \ {0}, PhasesFollow(ops, total), NEW j \in 1 .. total
    PROVE  /\ SameBefore(ops, j) = {} => PrevInStream(ops, j) = {}
           /\ SameBefore(ops, j) # {} => \E m \in SameBefore(ops, j) : PrevInStream(ops, j) = {m} /\ \A i \in SameBefore(ops, j) : i <= m
<1>1. PICK same : same = {i \in 1 .. j - 1 : <<ops[i].pass, ops[i].phase, ops[i].stream>> = <<ops[j].pass, ops[j].phase, ops[j].stream>>} OBVIOUS
<1>2. same = SameBefore(ops, j)
  <2>1. ASSUME NEW i \in 1 .. j - 1
        PROVE  (ops[i].pass = ops[j].pass /\ ops[i].phase = ops[j].phase) <=> PhaseNumber(ops[i]) = PhaseNumber(ops[j])
    <3>1. PICK a \in Nat, b \in Nat : a = ops[i].pass /\ b = ops[j].pass
      <4>1. i \in 1 .. total OBVIOUS
      <4> QED BY <4>1 DEF PhasesFollow
    <3>2. ops[i].phase \in {"store", "load"} /\ ops[j].phase \in {"store", "load"}
      <4>1. i \in 1 .. total OBVIOUS
      <4> QED BY <4>1 DEF PhasesFollow
    <3>3. PhaseNumber(ops[i]) = 2 * a + (IF ops[i].phase = "store" THEN 0 ELSE 1) BY <3>1 DEF PhaseNumber
    <3>4. PhaseNumber(ops[j]) = 2 * b + (IF ops[j].phase = "store" THEN 0 ELSE 1) BY <3>1 DEF PhaseNumber
    <3>5. CASE ops[i].phase = "store" /\ ops[j].phase = "store" BY <3>1, <3>3, <3>4, <3>5
    <3>6. CASE ops[i].phase = "store" /\ ops[j].phase = "load" BY <3>1, <3>3, <3>4, <3>6
    <3>7. CASE ops[i].phase = "load" /\ ops[j].phase = "store" BY <3>1, <3>3, <3>4, <3>7
    <3>8. CASE ops[i].phase = "load" /\ ops[j].phase = "load"
      <4>1. PhaseNumber(ops[i]) = 2 * a + 1 /\ PhaseNumber(ops[j]) = 2 * b + 1 BY <3>3, <3>4, <3>8
      <4>2. 2 * a + 1 = 2 * b + 1 <=> a = b OBVIOUS
      <4> QED BY <3>1, <3>8, <4>1, <4>2
    <3> QED BY <3>2, <3>5, <3>6, <3>7, <3>8
  <2>2. ASSUME NEW i \in 1 .. j - 1
        PROVE  <<ops[i].pass, ops[i].phase, ops[i].stream>> = <<ops[j].pass, ops[j].phase, ops[j].stream>>
               <=> PhaseNumber(ops[i]) = PhaseNumber(ops[j]) /\ ops[i].stream = ops[j].stream
    BY <2>1
  <2> QED BY <1>1, <2>2 DEF SameBefore
<1>3. PrevInStream(ops, j) = IF same = {} THEN {} ELSE {Max(same)} BY <1>1 DEF PrevInStream
<1>4. CASE same = {} BY <1>2, <1>3, <1>4
<1>5. CASE same # {}
  <2>1. PICK m \in Nat : m = j - 1 OBVIOUS
  <2>2. same \in SUBSET (1 .. m) BY <1>1, <2>1
  <2>3. Max(same) \in same /\ \A y \in same : Max(same) >= y BY <1>5, <2>2, MaxOfSet
  <2>4. PICK x \in same : x = Max(same) /\ \A y \in same : y <= x
    <3>1. \A y \in same : y \in Nat BY <2>2
    <3> QED BY <2>3, <3>1
  <2> QED BY <1>2, <1>3, <1>5, <2>4
<1> QED BY <1>4, <1>5

\* What the edges order, directly or through others, is what the record
\* orders.
LEMMA OrderKept ==
    ASSUME NEW ops, NEW total \in Nat \ {0}, PhasesFollow(ops, total), NEW j \in 1 .. total
    PROVE  /\ V1Deps(ops, j) \subseteq 1 .. j - 1
           /\ {i \in 1 .. total : V1Before(ops, i, j)}
                = UNION {{k} \cup {i \in 1 .. total : V1Before(ops, i, k)} : k \in V1Deps(ops, j)}
<1>1. V1Deps(ops, j) = PrevInStream(ops, j) \cup {k \in 1 .. j - 1 : PhaseNumber(ops[k]) = PhaseNumber(ops[j]) - 1} BY DepsAre
<1>2. /\ SameBefore(ops, j) = {} => PrevInStream(ops, j) = {}
      /\ SameBefore(ops, j) # {} => \E m \in SameBefore(ops, j) : PrevInStream(ops, j) = {m} /\ \A i \in SameBefore(ops, j) : i <= m
  BY PrevIs
<1>3. PrevInStream(ops, j) \subseteq SameBefore(ops, j) BY <1>2
<1>4. V1Deps(ops, j) \subseteq 1 .. j - 1 BY <1>1, <1>3 DEF SameBefore
<1>5. \A i \in 1 .. total : PhaseNumber(ops[i]) \in Nat BY DEF PhasesFollow
<1>6. PICK y \in Nat : y = PhaseNumber(ops[j]) BY <1>5
<1>7. ASSUME NEW i \in 1 .. total, V1Before(ops, i, j)
      PROVE  \E k \in V1Deps(ops, j) : i = k \/ V1Before(ops, i, k)
  <2>1. PICK x \in Nat : x = PhaseNumber(ops[i]) BY <1>5
  <2>2. CASE x < y
    <3>1. y >= 1 BY <2>2
    <3>2. PICK k \in 1 .. j - 1 : PhaseNumber(ops[k]) = PhaseNumber(ops[j]) - 1 BY <1>6, <3>1 DEF PhasesFollow
    <3>3. k \in V1Deps(ops, j) BY <1>1, <3>2
    <3>4. CASE x = y - 1
      <4>1. i < j
        <5> SUFFICES ASSUME j <= i PROVE FALSE OBVIOUS
        <5>1. y <= x BY <1>6, <2>1 DEF PhasesFollow
        <5> QED BY <2>2, <5>1
      <4>2. i \in 1 .. j - 1 BY <4>1
      <4>3. i \in V1Deps(ops, j) BY <1>1, <1>6, <2>1, <3>4, <4>2
      <4> QED BY <4>3
    <3>5. CASE x # y - 1
      <4>1. PhaseNumber(ops[i]) < PhaseNumber(ops[k])
        <5>1. x < y - 1 BY <2>2, <3>5
        <5> QED BY <1>6, <2>1, <3>2, <5>1
      <4> QED BY <3>3, <4>1 DEF V1Before
    <3> QED BY <3>4, <3>5
  <2>3. CASE ~(x < y)
    <3>1. PhaseNumber(ops[i]) = PhaseNumber(ops[j]) /\ ops[i].stream = ops[j].stream /\ i < j BY <1>6, <1>7, <2>1, <2>3 DEF V1Before
    <3>2. i \in 1 .. j - 1 BY <3>1
    <3>3. i \in SameBefore(ops, j) BY <3>1, <3>2 DEF SameBefore
    <3>4. PICK m \in SameBefore(ops, j) : PrevInStream(ops, j) = {m} /\ \A g \in SameBefore(ops, j) : g <= m BY <1>2, <3>3
    <3>5. m \in V1Deps(ops, j) BY <1>1, <3>4
    <3>6. m \in Nat /\ i <= m /\ PhaseNumber(ops[m]) = PhaseNumber(ops[j]) /\ ops[m].stream = ops[j].stream BY <3>3, <3>4 DEF SameBefore
    <3>7. i = m \/ i < m BY <3>6
    <3> QED BY <3>1, <3>5, <3>6, <3>7 DEF V1Before
  <2> QED BY <2>2, <2>3
<1>8. ASSUME NEW k \in V1Deps(ops, j), NEW i \in 1 .. total, i = k \/ V1Before(ops, i, k)
      PROVE  V1Before(ops, i, j)
  <2>1. k \in 1 .. j - 1 /\ k \in 1 .. total
    <3>1. k \in 1 .. j - 1 BY <1>4
    <3> QED BY <3>1
  <2>2. PICK x \in Nat, z \in Nat : x = PhaseNumber(ops[i]) /\ z = PhaseNumber(ops[k]) BY <1>5, <2>1
  <2>3. (z = y /\ ops[k].stream = ops[j].stream) \/ z = y - 1
    <3>1. CASE k \in PrevInStream(ops, j)
      <4>1. k \in SameBefore(ops, j) BY <1>3, <3>1
      <4> QED BY <1>6, <2>2, <4>1 DEF SameBefore
    <3>2. CASE PhaseNumber(ops[k]) = PhaseNumber(ops[j]) - 1 BY <1>6, <2>2, <3>2
    <3> QED BY <1>1, <3>1, <3>2
  <2>4. x <= z /\ (x = z => i <= k /\ ops[i].stream = ops[k].stream)
    <3>1. CASE i = k BY <2>1, <2>2, <3>1
    <3>2. CASE V1Before(ops, i, k) BY <2>1, <2>2, <3>2 DEF V1Before
    <3> QED BY <1>8, <3>1, <3>2
  <2>5. x < y \/ (x = y /\ i < j /\ ops[i].stream = ops[j].stream)
    <3>1. CASE z = y - 1 BY <2>4, <3>1
    <3>2. CASE z = y /\ ops[k].stream = ops[j].stream
      <4>1. CASE x < z BY <3>2, <4>1
      <4>2. CASE x = z BY <2>1, <2>4, <3>2, <4>2
      <4> QED BY <2>4, <4>1, <4>2
    <3> QED BY <2>3, <3>1, <3>2
  <2> QED BY <1>6, <2>2, <2>5 DEF V1Before
<1>9. V1Deps(ops, j) \subseteq 1 .. total BY <1>4
<1>10. ASSUME NEW i
       PROVE  i \in {g \in 1 .. total : V1Before(ops, g, j)}
                <=> i \in UNION {{k} \cup {g \in 1 .. total : V1Before(ops, g, k)} : k \in V1Deps(ops, j)}
  <2>1. ASSUME i \in 1 .. total, V1Before(ops, i, j)
        PROVE  i \in UNION {{k} \cup {g \in 1 .. total : V1Before(ops, g, k)} : k \in V1Deps(ops, j)}
    <3>1. PICK k \in V1Deps(ops, j) : i = k \/ V1Before(ops, i, k) BY <1>7, <2>1
    <3> QED BY <2>1, <3>1
  <2>2. ASSUME NEW k \in V1Deps(ops, j), i \in {k} \cup {g \in 1 .. total : V1Before(ops, g, k)}
        PROVE  i \in 1 .. total /\ V1Before(ops, i, j)
    <3>1. i \in 1 .. total /\ (i = k \/ V1Before(ops, i, k)) BY <1>9, <2>2
    <3> QED BY <1>8, <3>1
  <2> QED BY <2>1, <2>2
<1> QED BY <1>4, <1>10

----------------------------------------------------------------------------
(* The documents.                                                          *)

LEMMA InOrderIs ==
    ASSUME NEW i \in Nat \ {0}, NEW S \in SUBSET (1 .. i - 1)
    PROVE  ToSet(InOrder(S, i)) = S
<1>1. PICK n \in Nat : n = i - 1 OBVIOUS
<1>2. PICK seqs : seqs = [j \in 1 .. n |-> IF j \in S THEN <<j>> ELSE <<>>] OBVIOUS
<1>3. PICK s : s = InOrder(S, i) OBVIOUS
<1>4. s = FlattenSeq(seqs) BY <1>1, <1>2, <1>3 DEF InOrder
<1>5. CASE n = 0
  <2>1. seqs = <<>> BY <1>2, <1>5
  <2>2. Len(seqs) = 0 BY <2>1
  <2>3. FlattenSeq(seqs) = seqs BY <2>2 DEF FlattenSeq
  <2>4. s = <<>> BY <1>4, <2>1, <2>3
  <2>5. ToSet(s) = {} BY <2>4 DEF ToSet
  <2>6. S = {} BY <1>1, <1>5
  <2> QED BY <1>3, <2>5, <2>6
<1>6. CASE n # 0
  <2>1. \A j \in 1 .. n : (IF j \in S THEN <<j>> ELSE <<>>) \in Seq(Nat)
    <3> SUFFICES ASSUME NEW j \in 1 .. n PROVE (IF j \in S THEN <<j>> ELSE <<>>) \in Seq(Nat) OBVIOUS
    <3>1. j \in Nat OBVIOUS
    <3>2. <<j>> \in Seq(Nat) /\ <<>> \in Seq(Nat) BY <3>1
    <3> QED BY <3>2
  <2>2. seqs \in [1 .. n -> Seq(Nat)] BY <1>2, <2>1
  <2>3. PICK p : Places(seqs, n, Nat, p, s) BY <1>4, <1>6, <2>2, FlattenPlaces
  <2>4. DOMAIN s = 1 .. p[n] BY <2>3 DEF Places
  <2>5. p \in [0 .. n -> Nat] /\ (\A g \in 1 .. n : p[g] = p[g - 1] + Len(seqs[g])) /\ \A g, h \in 0 .. n : g <= h => p[g] <= p[h]
    BY <2>3 DEF Places
  <2>6. ASSUME NEW j \in S PROVE j \in ToSet(s)
    <3>1. j \in 1 .. n /\ seqs[j] = <<j>> BY <1>1, <1>2
    <3>2. Len(seqs[j]) = 1 /\ seqs[j][1] = j BY <3>1
    <3>3. s[p[j - 1] + 1] = j
      <4>1. 1 \in 1 .. Len(seqs[j]) BY <3>2
      <4> QED BY <2>3, <3>1, <3>2, <4>1 DEF Places
    <3>4. p[j - 1] + 1 \in 1 .. p[n]
      <4>1. j - 1 \in 0 .. n /\ j \in 0 .. n /\ n \in 0 .. n /\ j <= n BY <3>1
      <4>2. p[j - 1] \in Nat /\ p[j] \in Nat /\ p[n] \in Nat BY <2>5, <4>1
      <4>3. p[j] = p[j - 1] + 1 /\ p[j] <= p[n] BY <2>5, <3>1, <3>2, <4>1
      <4> QED BY <4>2, <4>3
    <3> QED BY <2>4, <3>3, <3>4 DEF ToSet
  <2>7. ASSUME NEW x \in DOMAIN s PROVE s[x] \in S
    <3>1. PICK g \in 1 .. n : \E k \in 1 .. Len(seqs[g]) : x = p[g - 1] + k BY <2>3, <2>4 DEF Places
    <3>2. PICK k \in 1 .. Len(seqs[g]) : x = p[g - 1] + k BY <3>1
    <3>3. s[x] = seqs[g][k] BY <2>3, <3>2 DEF Places
    <3>4. g \in S
      <4> SUFFICES ASSUME g \notin S PROVE FALSE OBVIOUS
      <4>1. seqs[g] = <<>> BY <1>2
      <4>2. Len(seqs[g]) = 0 BY <4>1
      <4> QED BY <3>2, <4>2
    <3>5. seqs[g] = <<g>> BY <1>2, <3>4
    <3>6. Len(seqs[g]) = 1 /\ seqs[g][1] = g BY <3>5
    <3>7. k = 1 BY <3>2, <3>6
    <3> QED BY <3>3, <3>4, <3>6, <3>7
  <2>8. ToSet(s) = S BY <2>6, <2>7 DEF ToSet
  <2> QED BY <1>3, <2>8
<1> QED BY <1>5, <1>6

\* An operation of version 2, and the record: what normalize_v1 makes of ops.
NormalOp(op, ops, pl, i) ==
    /\ op.op_id = i /\ op.op = ops[i].phase /\ op.object_id = ops[i].logical_object /\ op.version = 1
    /\ op.stream = ops[i].stream /\ op.deps = InOrder(V1Deps(ops, i), i) /\ op.range = None /\ op.release_ns = None
    /\ op.source_outcome = None /\ op.requested_bytes = pl /\ op.seq = i - 1
PayloadRepresentation(pl) == [encoded_bytes |-> pl, components |-> <<[offset |-> 0, length |-> pl]>>]
Normal(two, ops, total, pl) ==
    /\ two.capture_level = "generated" /\ two.mapping_method = "declared" /\ two.timing_model = "absent"
    /\ two.completeness = "complete" /\ two.notes = {} /\ two.live = <<>> /\ two.sidecar = FALSE
    /\ two.representations = [x \in {"v1-payload"} |-> PayloadRepresentation(pl)]
    /\ two.objects = [oid \in {ops[i].logical_object : i \in 1 .. total} |-> [v \in {1} |-> [representation |-> "v1-payload", bytes |-> pl]]]
    /\ DOMAIN two.operations = 1 .. total
    /\ \A i \in 1 .. total : NormalOp(two.operations[i], ops, pl, i)

LEMMA Normalized ==
    ASSUME NEW ops, NEW total \in Nat \ {0}, PhasesFollow(ops, total), DOMAIN ops = 1 .. total, NEW pl
    PROVE  Normal(normalize_v1(ops, pl), ops, total, pl)
<1>1. PICK new : new = new_intent("generated", "declared", "absent", "complete", {}) OBVIOUS
<1>2. PICK base : base = add_representation(new, "v1-payload", pl) OBVIOUS
<1>3. PICK version : version = ObjectVersion(base, "v1-payload") OBVIOUS
<1>4. PICK known : known = [base EXCEPT !.objects = [oid \in {ops[i].logical_object : i \in DOMAIN ops} |-> [v \in {1} |-> version]]] OBVIOUS
<1> DEFINE Op(i) == [op_id |-> i, op |-> ops[i].phase, object_id |-> ops[i].logical_object, version |-> 1,
                     stream |-> ops[i].stream, deps |-> InOrder(V1Deps(ops, i), i), range |-> None,
                     release_ns |-> None, source_outcome |-> None, requested_bytes |-> None]
<1>5. PICK two : two = normalize_v1(ops, pl) OBVIOUS
<1>6. two = [known EXCEPT !.operations = [i \in DOMAIN ops |-> Positioned(known, Op(i), i - 1)]]
  BY <1>1, <1>2, <1>3, <1>4, <1>5 DEF normalize_v1
<1>7. new = [capture_level |-> "generated", mapping_method |-> "declared", timing_model |-> "absent",
             completeness |-> "complete", notes |-> {}, representations |-> <<>>, objects |-> <<>>,
             live |-> <<>>, operations |-> <<>>, sidecar |-> FALSE]
  BY <1>1 DEF new_intent
<1>8. PICK reps : reps = Put(new.representations, "v1-payload", PayloadRepresentation(pl)) OBVIOUS
<1>9. reps = [x \in {"v1-payload"} |-> PayloadRepresentation(pl)]
  <2>1. new.representations = <<>> /\ DOMAIN (<<>>) = {} BY <1>7
  <2> QED BY <1>8, <2>1 DEF Put
<1>10. base = [new EXCEPT !.representations = reps] BY <1>2, <1>8 DEF add_representation, PayloadRepresentation
<1>11. base.representations = reps BY <1>7, <1>10
<1>12. version = [representation |-> "v1-payload", bytes |-> pl]
  <2>1. base.representations["v1-payload"] = PayloadRepresentation(pl) BY <1>9, <1>11
  <2>2. PayloadRepresentation(pl).encoded_bytes = pl BY DEF PayloadRepresentation
  <2> QED BY <1>3, <2>1, <2>2 DEF ObjectVersion
<1>13. PICK objects : objects = [oid \in {ops[i].logical_object : i \in 1 .. total} |-> [v \in {1} |-> version]] OBVIOUS
<1>14. known = [base EXCEPT !.objects = objects] BY <1>4, <1>13
<1>15. PICK operations : operations = [i \in 1 .. total |-> Positioned(known, Op(i), i - 1)] OBVIOUS
<1>16. two = [known EXCEPT !.operations = operations] BY <1>6, <1>15
<1>17. /\ two.capture_level = "generated" /\ two.mapping_method = "declared" /\ two.timing_model = "absent"
       /\ two.completeness = "complete" /\ two.notes = {} /\ two.live = <<>> /\ two.sidecar = FALSE
       /\ two.representations = reps /\ two.objects = objects /\ two.operations = operations /\ known.objects = objects
  BY <1>7, <1>10, <1>14, <1>16
<1>18. ASSUME NEW i \in 1 .. total PROVE NormalOp(operations[i], ops, pl, i)
  <2>1. PICK op : op = Op(i) OBVIOUS
  <2>2. operations[i] = Positioned(known, op, i - 1) BY <1>15, <2>1
  <2>3. ops[i].phase # "release" BY DEF PhasesFollow
  <2>4. known.objects[ops[i].logical_object][1].bytes = pl
    <3>1. ops[i].logical_object \in {ops[g].logical_object : g \in 1 .. total} OBVIOUS
    <3>2. objects[ops[i].logical_object] = [v \in {1} |-> version] BY <1>13, <3>1
    <3> QED BY <1>12, <1>17, <3>2
  <2>5. /\ op.range = None /\ op.op = ops[i].phase /\ op.object_id = ops[i].logical_object /\ op.version = 1
        /\ op.requested_bytes = None
        /\ DOMAIN op = {"op_id", "op", "object_id", "version", "stream", "deps", "range", "release_ns", "source_outcome", "requested_bytes"}
    BY <2>1
  <2>6. PICK filled : filled = [op EXCEPT !.requested_bytes = pl] OBVIOUS
  <2>7. Positioned(known, op, i - 1) = Put(filled, "seq", i - 1) BY <2>3, <2>4, <2>5, <2>6 DEF Positioned
  <2>8. /\ filled.op_id = i /\ filled.op = ops[i].phase /\ filled.object_id = ops[i].logical_object /\ filled.version = 1
        /\ filled.stream = ops[i].stream /\ filled.deps = InOrder(V1Deps(ops, i), i) /\ filled.range = None /\ filled.release_ns = None
        /\ filled.source_outcome = None /\ filled.requested_bytes = pl
        /\ DOMAIN filled = {"op_id", "op", "object_id", "version", "stream", "deps", "range", "release_ns", "source_outcome", "requested_bytes"}
    BY <2>1, <2>6
  <2>9. PICK o : o = Put(filled, "seq", i - 1) OBVIOUS
  <2>10. o.seq = i - 1 /\ \A f \in DOMAIN filled : f # "seq" => o[f] = filled[f] BY <2>9 DEF Put
  <2>11. NormalOp(o, ops, pl, i) BY <2>8, <2>10 DEF NormalOp
  <2> QED BY <2>2, <2>7, <2>9, <2>11
<1>19. DOMAIN operations = 1 .. total BY <1>15
<1>20. Normal(two, ops, total, pl)
  <2>1. two.objects = [oid \in {ops[i].logical_object : i \in 1 .. total} |-> [v \in {1} |-> [representation |-> "v1-payload", bytes |-> pl]]]
    BY <1>12, <1>13, <1>17
  <2> QED BY <1>9, <1>17, <1>18, <1>19, <2>1 DEF Normal
<1> QED BY <1>5, <1>20

LEMMA NormalValidates ==
    ASSUME NEW ops, NEW total \in Nat \ {0}, PhasesFollow(ops, total), NEW pl \in Nat \ {0}, NEW two, Normal(two, ops, total, pl),
           None \notin Nat
    PROVE  validate_intent2(two)
<1>1. PICK rep : rep = PayloadRepresentation(pl) OBVIOUS
<1>2. two.representations = [x \in {"v1-payload"} |-> rep] BY <1>1 DEF Normal
<1>3. PICK version : version = [representation |-> "v1-payload", bytes |-> pl] OBVIOUS
<1>4. PICK names : names = {ops[i].logical_object : i \in 1 .. total} OBVIOUS
<1>5. two.objects = [oid \in names |-> [v \in {1} |-> version]] BY <1>3, <1>4 DEF Normal
<1>6. ValidProvenance(two)
  BY DEF Normal, ValidProvenance, CAPTURE_LEVELS, MAPPING_METHODS, TIMING_MODELS
<1>7. ValidRepresentations(two)
  <2>1. DOMAIN two.representations = {"v1-payload"} /\ two.representations["v1-payload"] = rep BY <1>2
  <2>2. two.representations # <<>>
    <3>1. DOMAIN (<<>>) = {} OBVIOUS
    <3> QED BY <2>1, <3>1
  <2>3. rep.encoded_bytes = pl /\ rep.components = <<[offset |-> 0, length |-> pl]>> BY <1>1 DEF PayloadRepresentation
  <2>4. PICK c : c = <<[offset |-> 0, length |-> pl]>> OBVIOUS
  <2>5. DOMAIN c = {1} /\ Len(c) = 1 /\ c[1].offset = 0 /\ c[1].length = pl /\ c # <<>> BY <2>4
  <2>6. Tiles(c, pl)
    <3>1. \A i \in DOMAIN c : i = 1 BY <2>5
    <3>2. 0 + pl = pl /\ 1 - 1 = 0 /\ pl >= 1 OBVIOUS
    <3> QED BY <2>5, <3>1, <3>2 DEF Tiles
  <2> QED BY <2>1, <2>2, <2>3, <2>4, <2>6 DEF ValidRepresentations
<1>8. ValidObjects(two)
  <2> SUFFICES ASSUME NEW oid \in DOMAIN two.objects
               PROVE  /\ two.objects[oid] # <<>>
                      /\ \A ver \in DOMAIN two.objects[oid] :
                           /\ two.objects[oid][ver].representation \in DOMAIN two.representations
                           /\ two.objects[oid][ver].bytes = two.representations[two.objects[oid][ver].representation].encoded_bytes
    BY DEF ValidObjects
  <2>1. two.objects[oid] = [v \in {1} |-> version] BY <1>5
  <2>2. two.objects[oid] # <<>>
    <3>1. DOMAIN (<<>>) = {} OBVIOUS
    <3> QED BY <2>1, <3>1
  <2>3. version.representation = "v1-payload" /\ version.bytes = pl BY <1>3
  <2>4. rep.encoded_bytes = pl BY <1>1 DEF PayloadRepresentation
  <2> QED BY <1>2, <2>1, <2>2, <2>3, <2>4
<1>9. ValidInitialState(two)
  <2>1. two.live = <<>> BY DEF Normal
  <2>2. DOMAIN two.live = {} BY <2>1
  <2> QED BY <2>2 DEF ValidInitialState
<1>10. ASSUME NEW i \in 1 .. total PROVE ValidOperation(two, i)
  <2>1. PICK op : op = two.operations[i] OBVIOUS
  <2>2. NormalOp(op, ops, pl, i) BY <2>1 DEF Normal
  <2>3. \A j \in 1 .. i - 1 : two.operations[j].op_id # op.op_id
    <3> SUFFICES ASSUME NEW j \in 1 .. i - 1 PROVE two.operations[j].op_id # op.op_id OBVIOUS
    <3>1. j \in 1 .. total /\ j # i OBVIOUS
    <3>2. NormalOp(two.operations[j], ops, pl, j) BY <3>1 DEF Normal
    <3> QED BY <2>2, <3>1, <3>2 DEF NormalOp
  <2>4. op.op \in {"store", "load"} BY <2>2 DEF NormalOp, PhasesFollow
  <2>5. Known(two, op.object_id, op.version)
    <3>1. op.object_id \in names /\ op.version = 1 BY <1>4, <2>2 DEF NormalOp
    <3> QED BY <1>5, <3>1 DEF Known
  <2>6. op.stream \in Nat BY <2>2 DEF NormalOp, PhasesFollow
  <2>7. \A d \in ToSet(op.deps) : \E j \in 1 .. i - 1 : two.operations[j].op_id = d
    <3>1. V1Deps(ops, i) \subseteq 1 .. i - 1 BY OrderKept
    <3>2. ToSet(op.deps) = V1Deps(ops, i) BY <2>2, <3>1, InOrderIs DEF NormalOp
    <3> SUFFICES ASSUME NEW d \in 1 .. i - 1 PROVE two.operations[d].op_id = d BY <3>1, <3>2
    <3>3. d \in 1 .. total OBVIOUS
    <3>4. NormalOp(two.operations[d], ops, pl, d) BY <3>3 DEF Normal
    <3> QED BY <3>4 DEF NormalOp
  <2>8. ASSUME op.op = "load" PROVE VisibleAt(two, i, op.object_id, op.version)
    <3>1. PICK touches : touches = {j \in 1 .. i - 1 : /\ two.operations[j].object_id = op.object_id
                                                       /\ two.operations[j].version = op.version
                                                       /\ two.operations[j].op \in {"store", "release"}} OBVIOUS
    <3>2. ops[i].phase = "load" BY <2>2, <2>8 DEF NormalOp
    <3>3. PICK b \in Nat : b = ops[i].pass BY DEF PhasesFollow
    <3>4. PhaseNumber(ops[i]) = 2 * b + 1 BY <3>2, <3>3 DEF PhaseNumber
    <3>5. PICK k \in 1 .. i - 1 : PhaseNumber(ops[k]) = PhaseNumber(ops[i]) - 1 /\ ops[k].logical_object = ops[i].logical_object
      <4>1. PhaseNumber(ops[i]) >= 1 BY <3>4
      <4> QED BY <3>2, <4>1 DEF PhasesFollow
    <3>6. ops[k].phase = "store"
      <4>1. k \in 1 .. total OBVIOUS
      <4>2. PICK a \in Nat : a = ops[k].pass BY <4>1 DEF PhasesFollow
      <4>3. ops[k].phase \in {"store", "load"} BY <4>1 DEF PhasesFollow
      <4>4. CASE ops[k].phase = "load"
        <5>1. PhaseNumber(ops[k]) = 2 * a + 1 BY <4>2, <4>4 DEF PhaseNumber
        <5>2. 2 * a + 1 = (2 * b + 1) - 1 BY <3>4, <3>5, <5>1
        <5>3. FALSE BY <5>2
        <5> QED BY <5>3
      <4> QED BY <4>3, <4>4
    <3>7. k \in touches
      <4>1. k \in 1 .. total OBVIOUS
      <4>2. NormalOp(two.operations[k], ops, pl, k) BY <4>1 DEF Normal
      <4> QED BY <2>2, <3>1, <3>5, <3>6, <4>2 DEF NormalOp
    <3>8. PICK m \in Nat : m = i - 1 OBVIOUS
    <3>9. touches \in SUBSET (1 .. m) /\ touches # {} BY <3>1, <3>7, <3>8
    <3>10. Max(touches) \in touches BY <3>9, MaxOfSet
    <3>11. PICK x \in touches : x = Max(touches) BY <3>10
    <3>12. two.operations[x].op = "store"
      <4>1. x \in 1 .. total BY <3>8, <3>9
      <4>2. NormalOp(two.operations[x], ops, pl, x) BY <4>1 DEF Normal
      <4>3. two.operations[x].op \in {"store", "load"} BY <4>1, <4>2 DEF NormalOp, PhasesFollow
      <4>4. two.operations[x].op \in {"store", "release"} BY <3>1
      <4> QED BY <4>3, <4>4
    <3> QED BY <3>1, <3>9, <3>11, <3>12 DEF VisibleAt
  <2>9. two.timing_model = "absent" BY DEF Normal
  <2>10. /\ op.seq = i - 1 /\ op.range = None /\ op.requested_bytes = pl /\ op.source_outcome = None /\ op.release_ns = None
    BY <2>2 DEF NormalOp
  <2>11. pl >= 0 /\ op.op \in OPS BY <2>4 DEF OPS
  <2> QED BY <2>1, <2>3, <2>5, <2>6, <2>7, <2>8, <2>9, <2>10, <2>11 DEF ValidOperation
<1>11. DOMAIN two.operations = 1 .. total /\ two.timing_model = "absent" BY DEF Normal
<1> QED BY <1>6, <1>7, <1>8, <1>9, <1>10, <1>11 DEF validate_intent2

\* An operation of version 3, and the workload: what from_intent2 makes of
\* that.
AdaptedOp(o, ops, pl, i) ==
    /\ o.op_id = i /\ o.family = "object" /\ o.call = ops[i].phase /\ o.stream = ops[i].stream /\ o.release_ns = None
    /\ o.expected = <<>> /\ o.seq = i - 1 /\ o.args.node = <<ops[i].logical_object, 1>>
    /\ IF ops[i].phase = "store" THEN DOMAIN o.args = {"node", "size"} /\ o.args.size = pl ELSE DOMAIN o.args = {"node"}
    /\ (\A d \in o.deps : d.op \in V1Deps(ops, i) /\ d.kind \in DEP_KINDS) /\ \A k \in V1Deps(ops, i) : \E d \in o.deps : d.op = k
Adapted(three, ops, total, pl) ==
    /\ three.capture_level = "generated" /\ three.mapping_method = "declared" /\ three.timing_model = "absent"
    /\ three.release_provenance = "none" /\ three.completeness = "complete" /\ three.sidecar = FALSE
    /\ DOMAIN three.nodes = {<<ops[i].logical_object, 1>> : i \in 1 .. total}
    /\ \A v \in DOMAIN three.nodes :
         three.nodes[v].kind = "object" /\ three.nodes[v].incarnation = 1 /\ three.nodes[v].size = pl
    /\ DOMAIN three.entries = {} /\ three.handles = <<>>
    /\ DOMAIN three.operations = 1 .. total
    /\ \A i \in 1 .. total : AdaptedOp(three.operations[i], ops, pl, i)

LEMMA AdaptedFrom ==
    ASSUME NEW ops, NEW total \in Nat \ {0}, PhasesFollow(ops, total), NEW pl, NEW two, Normal(two, ops, total, pl)
    PROVE  Adapted(from_intent2(two), ops, total, pl)
<1> DEFINE versions == {<<oid, ver>> : oid \in DOMAIN two.objects, ver \in UNION {DOMAIN two.objects[o] : o \in DOMAIN two.objects}}
           known == {w \in versions : Known(two, w[1], w[2])}
           ById(id) == CHOOSE o \in ToSet(two.operations) : o.op_id = id
           Args(o) == IF o.op = "store" THEN [node |-> <<o.object_id, o.version>>, size |-> o.requested_bytes]
                      ELSE IF o.op = "load" /\ o.range # None
                      THEN [node |-> <<o.object_id, o.version>>, offset |-> o.range.offset, length |-> o.range.length]
                      ELSE [node |-> <<o.object_id, o.version>>]
           Carried(o) ==
               [op_id |-> o.op_id, family |-> "object", call |-> o.op, args |-> Args(o),
                stream |-> o.stream, release_ns |-> o.release_ns,
                deps |-> {[op |-> d, kind |-> DepKind(two, o, ById(d))] : d \in ToSet(o.deps)},
                expected |-> IF o.source_outcome = None THEN <<>> ELSE [outcome |-> o.source_outcome]]
<1>1. PICK base : base = new_workload(two.capture_level, two.mapping_method, two.timing_model,
                           IF two.timing_model = "captured" THEN "observed_submission" ELSE "none", two.completeness, two.notes) OBVIOUS
<1>2. PICK nodes : nodes = [v \in known |-> [kind |-> "object", incarnation |-> v[2], size |-> two.objects[v[1]][v[2]].bytes]]
  <2> HIDE DEF known
  <2> QED OBVIOUS
<1>3. PICK live : live = [i \in DOMAIN two.live |->
                            LET v == <<two.live[i].object_id, two.live[i].version>>
                            IN [path |-> <<"live", v>>, node |-> v]] OBVIOUS
<1>4. PICK operations : operations = [i \in DOMAIN two.operations |-> add_op(Carried(two.operations[i]), i - 1)] OBVIOUS
<1>5. PICK three : three = from_intent2(two) OBVIOUS
<1>6. three = [base EXCEPT !.nodes = nodes, !.entries = live, !.sidecar = two.sidecar, !.operations = operations]
  BY <1>1, <1>2, <1>3, <1>4, <1>5 DEF from_intent2
<1>7. /\ two.capture_level = "generated" /\ two.mapping_method = "declared" /\ two.timing_model = "absent"
      /\ two.completeness = "complete" /\ two.live = <<>> /\ two.sidecar = FALSE /\ DOMAIN two.operations = 1 .. total
  BY DEF Normal
<1>8. base = [capture_level |-> "generated", mapping_method |-> "declared", timing_model |-> "absent",
              release_provenance |-> "none", completeness |-> "complete", notes |-> two.notes,
              nodes |-> <<>>, entries |-> <<>>, handles |-> <<>>, operations |-> <<>>, sidecar |-> FALSE]
  BY <1>1, <1>7 DEF new_workload
<1>9. /\ three.capture_level = "generated" /\ three.mapping_method = "declared" /\ three.timing_model = "absent"
      /\ three.release_provenance = "none" /\ three.completeness = "complete" /\ three.sidecar = FALSE
      /\ three.nodes = nodes /\ three.entries = live /\ three.handles = <<>> /\ three.operations = operations
  BY <1>6, <1>7, <1>8
<1>10. DOMAIN live = {} BY <1>3, <1>7
<1>11. PICK names : names = {ops[i].logical_object : i \in 1 .. total} OBVIOUS
<1>12. PICK version : version = [representation |-> "v1-payload", bytes |-> pl] OBVIOUS
<1>13. two.objects = [oid \in names |-> [v \in {1} |-> version]] BY <1>11, <1>12 DEF Normal
<1>14. known = {<<oid, 1>> : oid \in names}
  <2>1. DOMAIN two.objects = names /\ \A oid \in names : DOMAIN two.objects[oid] = {1} BY <1>13
  <2>2. ASSUME NEW w \in known PROVE w \in {<<oid, 1>> : oid \in names}
    <3>1. w \in versions /\ Known(two, w[1], w[2]) OBVIOUS
    <3>2. PICK oid \in names : \E ver : w = <<oid, ver>> BY <2>1, <3>1
    <3>3. PICK ver : w = <<oid, ver>> BY <3>2
    <3>4. ver \in {1} BY <2>1, <3>1, <3>3 DEF Known
    <3> QED BY <3>3, <3>4
  <2>3. ASSUME NEW oid \in names PROVE <<oid, 1>> \in known
    <3>1. <<oid, 1>> \in versions BY <2>1
    <3>2. Known(two, oid, 1) BY <2>1 DEF Known
    <3> QED BY <3>1, <3>2
  <2> HIDE DEF known
  <2> QED BY <2>2, <2>3
<1>15. DOMAIN nodes = {<<ops[i].logical_object, 1>> : i \in 1 .. total}
  <2>1. DOMAIN nodes = known BY <1>2
  <2> HIDE DEF known
  <2> QED BY <1>11, <1>14, <2>1
<1>16. ASSUME NEW v \in DOMAIN nodes PROVE nodes[v].kind = "object" /\ nodes[v].incarnation = 1 /\ nodes[v].size = pl
  <2>1. v \in known BY <1>2
  <2>2. PICK oid \in names : v = <<oid, 1>>
    <3> HIDE DEF known
    <3> QED BY <1>14, <2>1
  <2>3. v[1] = oid /\ v[2] = 1 BY <2>2
  <2>4. two.objects[v[1]][v[2]].bytes = pl BY <1>12, <1>13, <2>3
  <2>5. nodes[v] = [kind |-> "object", incarnation |-> v[2], size |-> two.objects[v[1]][v[2]].bytes] BY <1>2, <2>1
  <2> QED BY <2>3, <2>4, <2>5
<1>17. ASSUME NEW i \in 1 .. total PROVE AdaptedOp(operations[i], ops, pl, i)
  <2>1. PICK op : op = two.operations[i] OBVIOUS
  <2>2. NormalOp(op, ops, pl, i) BY <2>1 DEF Normal
  <2>3. PICK args : args = Args(op) OBVIOUS
  <2>4. args = IF ops[i].phase = "store" THEN [node |-> <<ops[i].logical_object, 1>>, size |-> pl] ELSE [node |-> <<ops[i].logical_object, 1>>]
    BY <2>2, <2>3 DEF NormalOp
  <2>5. PICK deps : deps = {[op |-> d, kind |-> DepKind(two, op, ById(d))] : d \in ToSet(op.deps)} OBVIOUS
  <2>6. ToSet(op.deps) = V1Deps(ops, i)
    <3>1. V1Deps(ops, i) \subseteq 1 .. i - 1 BY OrderKept
    <3> QED BY <2>2, <3>1, InOrderIs DEF NormalOp
  <2>7. \A d \in deps : d.op \in V1Deps(ops, i) /\ d.kind \in DEP_KINDS
    <3> SUFFICES ASSUME NEW d \in deps PROVE d.op \in V1Deps(ops, i) /\ d.kind \in DEP_KINDS OBVIOUS
    <3>1. PICK k \in V1Deps(ops, i) : d = [op |-> k, kind |-> DepKind(two, op, ById(k))] BY <2>5, <2>6
    <3>2. DepKind(two, op, ById(k)) \in {"identity", "program"} BY DEF DepKind
    <3> QED BY <3>1, <3>2 DEF DEP_KINDS
  <2>8. \A k \in V1Deps(ops, i) : \E d \in deps : d.op = k
    <3> SUFFICES ASSUME NEW k \in V1Deps(ops, i) PROVE \E d \in deps : d.op = k OBVIOUS
    <3>1. PICK d : d = [op |-> k, kind |-> DepKind(two, op, ById(k))] OBVIOUS
    <3>2. d \in deps
      <4> HIDE DEF ById
      <4> QED BY <2>5, <2>6, <3>1
    <3>3. d.op = k BY <3>1
    <3> QED BY <3>2, <3>3
  <2>9. PICK c : c = [op_id |-> i, family |-> "object", call |-> ops[i].phase, args |-> args, stream |-> ops[i].stream,
                      release_ns |-> None, deps |-> deps, expected |-> <<>>] OBVIOUS
  <2>10. Carried(op) = c BY <2>2, <2>3, <2>5, <2>9 DEF NormalOp
  <2>11. PICK o : o = Put(c, "seq", i - 1) OBVIOUS
  <2>12. operations[i] = o BY <1>4, <1>7, <2>1, <2>10, <2>11 DEF add_op
  <2>13. DOMAIN c = {"op_id", "family", "call", "args", "stream", "release_ns", "deps", "expected"} BY <2>9
  <2>14. o.seq = i - 1 /\ \A f \in DOMAIN c : f # "seq" => o[f] = c[f] BY <2>11 DEF Put
  <2>15. /\ o.op_id = i /\ o.family = "object" /\ o.call = ops[i].phase /\ o.args = args /\ o.stream = ops[i].stream
         /\ o.release_ns = None /\ o.deps = deps /\ o.expected = <<>> /\ o.seq = i - 1
    BY <2>9, <2>13, <2>14
  <2>16. /\ args.node = <<ops[i].logical_object, 1>>
         /\ IF ops[i].phase = "store" THEN DOMAIN args = {"node", "size"} /\ args.size = pl ELSE DOMAIN args = {"node"}
    BY <2>4
  <2> QED BY <2>7, <2>8, <2>12, <2>15, <2>16 DEF AdaptedOp
<1>18. DOMAIN operations = 1 .. total BY <1>4, <1>7
<1> QED BY <1>5, <1>9, <1>10, <1>15, <1>16, <1>17, <1>18 DEF Adapted

LEMMA AdaptedValidates ==
    ASSUME NEW ops, NEW total \in Nat \ {0}, PhasesFollow(ops, total), NEW pl \in Nat \ {0}, NEW three, Adapted(three, ops, total, pl),
           None \notin Nat
    PROVE  validate_workload(three)
<1>1. ValidProvenance3(three)
  BY DEF Adapted, ValidProvenance3, CAPTURE_LEVELS3, CAPTURE_LEVELS, MAPPING_METHODS, TIMING_MODELS, RELEASE_PROVENANCE
<1>2. ValidNamespace(three)
  <2>1. \A v \in DOMAIN three.nodes : /\ three.nodes[v].kind \in {"file", "dir", "object"}
                                      /\ three.nodes[v].incarnation >= 1 /\ three.nodes[v].size >= 0
    <3> SUFFICES ASSUME NEW v \in DOMAIN three.nodes
                 PROVE  three.nodes[v].kind \in {"file", "dir", "object"} /\ three.nodes[v].incarnation >= 1 /\ three.nodes[v].size >= 0
      OBVIOUS
    <3>1. three.nodes[v].kind = "object" /\ three.nodes[v].incarnation = 1 /\ three.nodes[v].size = pl BY DEF Adapted
    <3>2. 1 >= 1 /\ pl >= 0 OBVIOUS
    <3> QED BY <3>1, <3>2
  <2>2. DOMAIN three.entries = {} BY DEF Adapted
  <2>3. DOMAIN three.handles = {}
    <3>1. three.handles = <<>> BY DEF Adapted
    <3> QED BY <3>1
  <2> QED BY <2>1, <2>2, <2>3 DEF ValidNamespace
<1>3. ASSUME NEW i \in 1 .. total, NEW open
      PROVE  three.operations[i].seq = i - 1 /\ ValidOp(three, {three.operations[j].op_id : j \in 1 .. i - 1}, open, three.operations[i])
  <2>1. PICK o : o = three.operations[i] OBVIOUS
  <2>2. AdaptedOp(o, ops, pl, i) BY <2>1 DEF Adapted
  <2>3. {three.operations[j].op_id : j \in 1 .. i - 1} = 1 .. i - 1
    <3>1. ASSUME NEW j \in 1 .. i - 1 PROVE three.operations[j].op_id = j
      <4>1. j \in 1 .. total OBVIOUS
      <4>2. AdaptedOp(three.operations[j], ops, pl, j) BY <4>1 DEF Adapted
      <4> QED BY <4>2 DEF AdaptedOp
    <3> QED BY <3>1
  <2>4. /\ o.op_id = i /\ o.family = "object" /\ o.call = ops[i].phase /\ o.stream = ops[i].stream /\ o.release_ns = None
        /\ o.expected = <<>> /\ o.seq = i - 1 /\ o.args.node = <<ops[i].logical_object, 1>>
    BY <2>2 DEF AdaptedOp
  <2>5. IF ops[i].phase = "store" THEN DOMAIN o.args = {"node", "size"} /\ o.args.size = pl ELSE DOMAIN o.args = {"node"}
    BY <2>2 DEF AdaptedOp
  <2>6. ops[i].phase \in {"store", "load"} /\ ops[i].stream \in Nat BY DEF PhasesFollow
  <2>7. o.family \in FAMILIES /\ o.call \in DOMAIN CALLS[o.family] BY <2>4, <2>6 DEF FAMILIES, CALLS
  <2>8. CALLS[o.family][o.call] \subseteq DOMAIN o.args
    <3>1. CALLS["object"]["store"] = {"node", "size"} /\ CALLS["object"]["load"] = {"node"} BY DEF CALLS
    <3> QED BY <2>4, <2>5, <2>6, <3>1
  <2>9. \A f \in {"size", "offset", "length", "part"} \cap DOMAIN o.args : o.args[f] >= 0
    <3>1. pl >= 0 OBVIOUS
    <3>2. CASE ops[i].phase = "store"
      <4>1. \A f \in {"size", "offset", "length", "part"} \cap DOMAIN o.args : f = "size" BY <2>5, <3>2
      <4> QED BY <2>5, <3>1, <3>2, <4>1
    <3>3. CASE ops[i].phase # "store"
      <4>1. {"size", "offset", "length", "part"} \cap DOMAIN o.args = {} BY <2>5, <3>3
      <4> QED BY <4>1
    <3> QED BY <3>2, <3>3
  <2>10. "flags" \notin DOMAIN o.args BY <2>5
  <2>11. o.args.node \in DOMAIN three.nodes BY <2>4 DEF Adapted
  <2>12. HandleOK(open, o) BY <2>4 DEF HandleOK
  <2>13. \A d \in o.deps : d.op \in 1 .. i - 1 /\ d.kind \in DEP_KINDS
    <3>1. V1Deps(ops, i) \subseteq 1 .. i - 1 BY OrderKept
    <3>2. \A d \in o.deps : d.op \in V1Deps(ops, i) /\ d.kind \in DEP_KINDS BY <2>2 DEF AdaptedOp
    <3> QED BY <3>1, <3>2
  <2>14. DOMAIN o.expected = {} BY <2>4
  <2>15. three.timing_model = "absent" BY DEF Adapted
  <2>16. i \notin 1 .. i - 1 OBVIOUS
  <2>17. ValidOp(three, 1 .. i - 1, open, o)
    BY <2>4, <2>6, <2>7, <2>8, <2>9, <2>10, <2>11, <2>12, <2>13, <2>14, <2>15, <2>16 DEF ValidOp
  <2> QED BY <2>1, <2>3, <2>4, <2>17
<1>4. DOMAIN three.operations = 1 .. total /\ three.timing_model = "absent" BY DEF Adapted
<1> QED BY <1>1, <1>2, <1>3, <1>4 DEF validate_workload

\* The engines that take it are those of objects.
LEMMA EnginesTake ==
    ASSUME NEW ops, NEW total \in Nat \ {0}, PhasesFollow(ops, total), NEW pl, NEW three, Adapted(three, ops, total, pl)
    PROVE  {e \in DOMAIN REGISTRY : preflight(three, e, None)} = {"fake", "lmcache_raw_block"}
<1>1. PICK needed : needed = required_capabilities(three) OBVIOUS
<1>2. needed = {<<o.family, o.call>> : o \in {three.operations[i] : i \in 1 .. total}}
  <2>1. DOMAIN three.operations = 1 .. total BY DEF Adapted
  <2> QED BY <1>1, <2>1 DEF required_capabilities, ToSet
<1>3. ASSUME NEW c \in needed PROVE \E call \in {"store", "load"} : c = <<"object", call>>
  <2>1. PICK i \in 1 .. total : c = <<three.operations[i].family, three.operations[i].call>> BY <1>2
  <2>2. AdaptedOp(three.operations[i], ops, pl, i) BY DEF Adapted
  <2> QED BY <2>1, <2>2 DEF AdaptedOp, PhasesFollow
<1>4. \E c \in needed : TRUE
  <2>1. 1 \in 1 .. total OBVIOUS
  <2> QED BY <1>2, <2>1
<1>5. {c[1] : c \in needed} = {"object"}
  <2>1. \A c \in needed : c[1] = "object" BY <1>3
  <2> QED BY <1>4, <2>1
<1>6. needed \subseteq AllCalls("object")
  <2>1. DOMAIN CALLS["object"] = {"store", "load", "release", "exists"} BY DEF CALLS
  <2> QED BY <1>3, <2>1 DEF AllCalls
<1>7. DOMAIN REGISTRY = {"fake", "lmcache_raw_block", "posix_direct", "fake_fs", "s3_sdk", "fake_s3"} BY DEF REGISTRY
<1>8. /\ REGISTRY["fake"].family = "object" /\ REGISTRY["fake"].capabilities = AllCalls("object")
      /\ REGISTRY["lmcache_raw_block"].family = "object" /\ REGISTRY["lmcache_raw_block"].capabilities = AllCalls("object")
      /\ REGISTRY["posix_direct"].family = "posix" /\ REGISTRY["fake_fs"].family = "posix"
      /\ REGISTRY["s3_sdk"].family = "s3" /\ REGISTRY["fake_s3"].family = "s3"
  BY DEF REGISTRY
<1>9. ASSUME NEW e \in DOMAIN REGISTRY
      PROVE  preflight(three, e, None) <=> /\ {"object"} \subseteq {REGISTRY[e].family}
                                           /\ needed \subseteq REGISTRY[e].capabilities
  BY <1>1, <1>5 DEF preflight
<1>10. preflight(three, "fake", None) /\ preflight(three, "lmcache_raw_block", None) BY <1>6, <1>7, <1>8, <1>9
<1>11. ASSUME NEW e \in {"posix_direct", "fake_fs", "s3_sdk", "fake_s3"} PROVE ~preflight(three, e, None)
  <2>1. REGISTRY[e].family \in {"posix", "s3"} BY <1>8
  <2>2. e \in DOMAIN REGISTRY BY <1>7
  <2> QED BY <1>9, <2>1, <2>2
<1> QED BY <1>7, <1>10, <1>11

\* When every edge names an earlier operation, there is one ancestry.
LEMMA OneAncestry ==
    ASSUME NEW wl, NEW n \in Nat, DOMAIN wl.operations = 1 .. n,
           \A j \in 1 .. n : \A d \in wl.operations[j].deps : d.op \in 1 .. j - 1,
           NEW f, IsAncestors(f, wl), NEW g, IsAncestors(g, wl)
    PROVE  \A j \in 1 .. n : f[j] = g[j]
<1> DEFINE Bad == {j \in 1 .. n : f[j] # g[j]}
<1> SUFFICES ASSUME Bad # {} PROVE FALSE OBVIOUS
<1>1. Bad \in SUBSET Nat OBVIOUS
<1>2. PICK j \in Bad : \A k \in Bad : j <= k
  <2> HIDE DEF Bad
  <2> QED BY <1>1, SmallestNat
<1>3. j \in 1 .. n /\ f[j] # g[j] OBVIOUS
<1>4. \A d \in wl.operations[j].deps : f[d.op] = g[d.op]
  <2> SUFFICES ASSUME NEW d \in wl.operations[j].deps PROVE f[d.op] = g[d.op] OBVIOUS
  <2>1. d.op \in 1 .. j - 1 BY <1>3
  <2>2. d.op \in 1 .. n /\ ~(j <= d.op) BY <1>3, <2>1
  <2>3. d.op \notin Bad
    <3> HIDE DEF Bad
    <3> QED BY <1>2, <2>2
  <2> QED BY <2>2, <2>3
<1>5. /\ f[j] = UNION {{d.op} \cup f[d.op] : d \in wl.operations[j].deps}
      /\ g[j] = UNION {{d.op} \cup g[d.op] : d \in wl.operations[j].deps}
  BY <1>3 DEF IsAncestors
<1>6. {{d.op} \cup f[d.op] : d \in wl.operations[j].deps} = {{d.op} \cup g[d.op] : d \in wl.operations[j].deps} BY <1>4
<1> QED BY <1>3, <1>5, <1>6

LEMMA AdaptersAgree ==
    ASSUME dims \in Dimensions
    PROVE  AdaptersKeepOrder
<1>1. PICK d : d = dims /\ Dims(d) BY DimensionsAre
<1>2. PICK ops : ops = build_kv_offload_intent(d) OBVIOUS
<1>3. PICK total \in Nat \ {0} : total = PassesOf(d) * (2 * InPhase(d)) /\ ops = [i \in 1 .. total |-> InIntentAt(d, i - 1)]
  BY <1>1, <1>2, BuiltMany
<1>4. PhasesFollow(ops, total) BY <1>1, <1>3, PhasesRun
<1>5. DOMAIN ops = 1 .. total BY <1>3
<1>6. PICK pl \in Nat \ {0} : pl = d.payload BY <1>1 DEF Dims
<1>7. PICK two : two = normalize_v1(ops, pl) OBVIOUS
<1>8. Normal(two, ops, total, pl) BY <1>4, <1>5, <1>7, Normalized
<1>9. PICK three : three = from_intent2(two) OBVIOUS
<1>10. Adapted(three, ops, total, pl) BY <1>4, <1>8, <1>9, AdaptedFrom
<1>11. validate_intent2(two) BY <1>4, <1>8, NormalValidates, DocumentsAssumption
<1>12. validate_workload(three) BY <1>4, <1>10, AdaptedValidates, DocumentsAssumption
<1>13. {e \in DOMAIN REGISTRY : preflight(three, e, None)} = {"fake", "lmcache_raw_block"} BY <1>4, <1>10, EnginesTake
<1>14. FidelityMissing(three, "offered", {}) = {"release times"} BY <1>10 DEF Adapted, FidelityMissing
<1>15. PICK before : before = [j \in DOMAIN ops |-> {i \in DOMAIN ops : V1Before(ops, i, j)}] OBVIOUS
<1>16. IsAncestors(before, three)
  <2> SUFFICES ASSUME NEW j \in 1 .. total
               PROVE  before[j] = UNION {{e.op} \cup before[e.op] : e \in three.operations[j].deps}
    BY <1>10 DEF IsAncestors, Adapted
  <2>1. PICK deps : deps = three.operations[j].deps OBVIOUS
  <2>2. (\A e \in deps : e.op \in V1Deps(ops, j)) /\ \A k \in V1Deps(ops, j) : \E e \in deps : e.op = k
    <3>1. AdaptedOp(three.operations[j], ops, pl, j) BY <1>10 DEF Adapted
    <3> QED BY <2>1, <3>1 DEF AdaptedOp
  <2>3. V1Deps(ops, j) \subseteq 1 .. j - 1 BY <1>4, OrderKept
  <2>4. {i \in 1 .. total : V1Before(ops, i, j)} = UNION {{k} \cup {i \in 1 .. total : V1Before(ops, i, k)} : k \in V1Deps(ops, j)}
    BY <1>4, OrderKept
  <2>5. \A k \in 1 .. total : before[k] = {i \in 1 .. total : V1Before(ops, i, k)} BY <1>5, <1>15
  <2>6. V1Deps(ops, j) \subseteq 1 .. total BY <2>3
  <2>7. before[j] = UNION {{k} \cup before[k] : k \in V1Deps(ops, j)} BY <2>4, <2>5, <2>6
  <2>8. {{e.op} \cup before[e.op] : e \in deps} = {{k} \cup before[k] : k \in V1Deps(ops, j)}
    <3> DEFINE W(k) == {k} \cup before[k]
    <3> HIDE DEF W
    <3>1. {W(e.op) : e \in deps} = {W(k) : k \in V1Deps(ops, j)} BY <2>2
    <3> QED BY <3>1 DEF W
  <2> QED BY <2>1, <2>7, <2>8
<1> QED BY <1>1, <1>2, <1>6, <1>7, <1>9, <1>11, <1>12, <1>13, <1>14, <1>15, <1>16 DEF AdaptersKeepOrder

\* The documents of one execution agree, whatever its dimensions and the
\* target's limits: lowering cuts every operation into commands that carry its
\* bytes once and in order (intent.py), and the versions 2 and 3 validate, run
\* on the object engines and order what version 1 orders (intent2.py,
\* workload3.py, engines.py).
THEOREM DocumentsRight == DocumentsSpec => []DocumentsAgree
<1>1. DocumentsInit => DocumentsAgree BY Lowered, AdaptersAgree DEF DocumentsInit, DocumentsAgree
<1>2. DocumentsAgree /\ [UNCHANGED documentVars]_documentVars => DocumentsAgree'
  BY DEF DocumentsAgree, LoweringTiles, AdaptersKeepOrder, documentVars
<1> QED BY <1>1, <1>2, PTL DEF DocumentsSpec
============================================================================
