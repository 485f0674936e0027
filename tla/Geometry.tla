------------------------------ MODULE Geometry ------------------------------
(***************************************************************************)
(* tools/kvio/kv_geometry.py and kv_representation.py: the bytes of a KV   *)
(* chunk from a model's dimensions, its shards under tensor parallelism,   *)
(* and the objects each stored representation makes of it.                 *)
(*                                                                         *)
(* A configuration is a record whose absent fields are 0; a fraction is    *)
(* rounded as int(round(x)), halves to even.                               *)
(***************************************************************************)
EXTENDS Integers, Sequences, FiniteSets, SequencesExt

DTYPE_BYTES == [float32 |-> 4, float16 |-> 2, bfloat16 |-> 2, int8 |-> 1, fp8 |-> 1, float8 |-> 1]

\* int(round(n / d)).
RoundDiv(n, d) ==
    LET q == n \div d
        r == n % d
    IN IF 2 * r < d \/ (2 * r = d /\ q % 2 = 0) THEN q ELSE q + 1

Aligned(n, align) == ((n + align - 1) \div align) * align

\* The family, by the name's rule (named, "default" when there is none) and
\* else by the configuration.
resolve_family(named, config) ==
    CASE named # "default" -> named
      [] config.kv_lora_rank # 0 /\ config.qk_rope_head_dim # 0 -> "mla"
      [] config.cla_share_factor # 0 -> "cla"
      [] config.head_dim # 0 /\ (config.hidden_size = 0 \/ config.num_attention_heads = 0
            \/ config.head_dim # config.hidden_size \div config.num_attention_heads) -> "gqa_head_dim"
      [] OTHER -> "default"

\* The elements of the cache of so many tokens, as a fraction.
Elements(fam, config, tokens) ==
    LET nl == config.num_hidden_layers
        kv == config.num_key_value_heads
    IN CASE fam = "mla" -> <<nl * tokens * (config.kv_lora_rank + config.qk_rope_head_dim), 1>>
         [] fam = "cla" -> <<2 * nl * tokens * kv * config.hidden_size,
                             config.cla_share_factor * config.num_attention_heads>>
         [] fam = "gqa_head_dim" -> <<2 * nl * tokens * kv * config.head_dim, 1>>
         [] OTHER -> <<2 * nl * tokens * kv * config.hidden_size, config.num_attention_heads>>

kv_cache_bytes(named, config, tokens, dtype) ==
    LET fam == resolve_family(named, config)
        e == Elements(fam, config, tokens)
    IN [family |-> fam, kv_heads |-> IF fam = "mla" THEN 0 ELSE config.num_key_value_heads,
        total_elements |-> RoundDiv(e[1], e[2]), total_bytes |-> RoundDiv(e[1] * DTYPE_BYTES[dtype], e[2])]

\* The splits vLLM refuses.
Unshardable(detail, tp) ==
    tp > 1 /\ detail.family # "mla" /\ (detail.kv_heads = 0 \/ (detail.kv_heads >= tp /\ detail.kv_heads % tp # 0))

\* As shard_kv_bytes, the heads divided among the ranks although there are
\* fewer of them.
ShardNoReplication(total, detail, tp) ==
    IF tp <= 1 THEN [bytes |-> total, ranks |-> 1]
    ELSE [bytes |-> IF detail.family = "mla" THEN total ELSE total \div tp, ranks |-> tp]

\* Bytes on one rank, and objects per chunk.
shard_kv_bytes(total, detail, tp) ==
    IF tp <= 1 THEN [bytes |-> total, ranks |-> 1]
    ELSE IF detail.family = "mla" THEN [bytes |-> total, ranks |-> tp]
    ELSE [bytes |-> total \div (IF detail.kv_heads >= tp THEN tp ELSE detail.kv_heads), ranks |-> tp]

----------------------------------------------------------------------------
(* Representations.                                                        *)

REPRESENTATIONS ==
    [bf16_kv |-> [stored |-> {"k", "v"}, host_resident |-> {}, codec |-> FALSE],
     k16_v8 |-> [stored |-> {"k", "v"}, host_resident |-> {}, codec |-> TRUE],
     v8_only |-> [stored |-> {"v"}, host_resident |-> {"k"}, codec |-> TRUE]]

\* 76 fixed bytes, the scale shape, three lengths, the count, the six
\* strings (keys of 83 bytes, 24 bytes of lengths, and their values), the
\* checksum.
codec_header_bytes(dims, strings) == 76 + 8 * dims + 24 + 2 + (83 + 24 + strings) + 4

SERDE_HEADER_ALLOWANCE == 1024

\* What cannot be derived: planes of a latent, an odd chunk, a partial page.
Underivable(name, detail, tp, p) ==
    \/ detail.family = "mla" \/ detail.total_elements % 2 = 1 \/ Unshardable(detail, tp)
    \/ /\ REPRESENTATIONS[name].codec /\ p.scope = "per_page_head"
       /\ p.page_size <= 0 \/ p.chunk_tokens % p.page_size # 0 \/ detail.kv_heads = 0

\* The pages and heads a rank's scales are for.
ScaleExtent(detail, tp, ranks, p) ==
    IF p.scope = "per_tensor" THEN 1
    ELSE (p.chunk_tokens \div p.page_size)
           * (IF tp > 1 THEN Max({1, detail.kv_heads \div ranks}) ELSE detail.kv_heads)

\* One representation of one chunk on one rank; p holds the parameters.
derive_representation(name, detail, dtype, tp, p) ==
    LET spec == REPRESENTATIONS[name]
        size == DTYPE_BYTES[dtype]
        plane == shard_kv_bytes((detail.total_elements \div 2) * size, detail, tp)
        scales == IF spec.codec THEN 4 * ScaleExtent(detail, tp, plane.ranks, p) ELSE 0
        header == IF spec.codec THEN codec_header_bytes(IF p.scope = "per_tensor" THEN 0 ELSE 2, p.strings) ELSE 0
        k == IF "k" \in spec.stored THEN plane.bytes ELSE 0
        v == IF spec.codec THEN plane.bytes \div size ELSE plane.bytes
        padding == IF p.pad THEN Aligned(k + v + scales + header, p.block_align) - (k + v + scales + header) ELSE 0
        payload == k + v + scales + header + padding
    IN [components |-> [k |-> k, v |-> v, scales |-> scales, codec_header |-> header, padding |-> padding],
        payload_bytes |-> payload, ranks |-> plane.ranks, plane |-> plane.bytes,
        reservation |-> IF spec.codec THEN payload - header + SERDE_HEADER_ALLOWANCE ELSE 0,
        physical |-> Aligned(p.metadata + payload, p.block_align),
        host |-> IF spec.host_resident = {} THEN 0 ELSE plane.bytes]

\* derive_representation_set: one intent per representation of the same
\* schedule, and the manifest that binds them; a digest is what it is of.
derive_representation_set(detail, dtype, tp, p, chunks) ==
    LET names == DOMAIN REPRESENTATIONS
        entry == [n \in names |-> derive_representation(n, detail, dtype, tp, p)]
        intent == [n \in names |-> [payload_bytes |-> entry[n].payload_bytes, ranks |-> entry[n].ranks, chunks |-> chunks]]
        per_chunk == entry["bf16_kv"].ranks
    IN [intents |-> intent,
        manifest |-> [entries |-> entry, bound |-> intent, planes |-> [n \in names |-> REPRESENTATIONS[n].stored],
                      objects_per_chunk |-> per_chunk,
                      host_budget |-> entry["v8_only"].host * per_chunk * chunks]]

\* validate_representation_set.
validate_representation_set(manifest, intents) ==
    /\ DOMAIN manifest.entries = DOMAIN intents
    /\ \A n \in DOMAIN intents :
        LET e == manifest.entries[n]
            c == e.components
        IN /\ manifest.bound[n] = intents[n]
           /\ intents[n].payload_bytes = e.payload_bytes /\ intents[n].ranks = e.ranks
           /\ c.k + c.v + c.scales + c.codec_header + c.padding = e.payload_bytes
           /\ manifest.planes[n] = REPRESENTATIONS[n].stored

----------------------------------------------------------------------------
(* Content (content_profile.py): blocks of B bytes, each a function of the *)
(* identity and the block, cut where a range begins and ends.              *)

\* _block_bytes at position i of a block: zeros, a repeated pattern, one of
\* the shared blocks, or the identity's own stream, by the block's class.
BlockByte(profile, identity, block, i) ==
    LET class == profile.classes[((identity + block) % Len(profile.classes)) + 1]
    IN CASE profile.name = "zeros" \/ (profile.name = "mixed" /\ class = "zero") -> <<0, 0, 0>>
         [] profile.name = "mixed" /\ class = "pattern" -> <<identity, block, i % profile.pattern_len>>
         [] profile.name = "mixed" /\ profile.dup_classes # 0 ->
              <<-1 - ((identity + block) % profile.dup_classes), 0, i>>
         [] OTHER -> <<identity, block, i>>

\* As content, each block from its own beginning.
ContentUncut(profile, identity, offset, length) ==
    [j \in 1 .. length |-> BlockByte(profile, identity, (offset + j - 1) \div profile.block, (j - 1) % profile.block)]

\* The bytes of identity in [offset, offset + length): from each block it
\* touches the part that lies in the range.
content(profile, identity, offset, length) ==
    LET B == profile.block
        first == offset \div B
        touched == IF length = 0 THEN 0 ELSE (offset + length - 1) \div B - first + 1
        Block(b) == [i \in 1 .. B |-> BlockByte(profile, identity, b, i - 1)]
        Piece(i) == SubSeq(Block(first + i - 1), IF i = 1 THEN (offset % B) + 1 ELSE 1,
                           Min({B, offset + length - (first + i - 1) * B}))
    IN FlattenSeq([i \in 1 .. touched |-> Piece(i)])

----------------------------------------------------------------------------
(* What is considered.                                                     *)

CONSTANT Sizes   \* records [named, config, dtype, tp, p, profile] of a configuration and parameters
VARIABLE sized   \* no or one of them

\* A whole number of elements to a head, and of layers that share a cache
\* (kv_cache_bytes: "exact for the shipped configs (integer divisions)").
WholeHeads(fam, config) ==
    /\ fam \notin {"mla", "gqa_head_dim"} =>
         config.num_attention_heads > 0 /\ config.hidden_size % config.num_attention_heads = 0
    /\ fam = "cla" => config.cla_share_factor > 0 /\ config.num_hidden_layers % config.cla_share_factor = 0
Sizeable(z) ==
    /\ z.named \in {"default", "mla", "cla", "gqa_head_dim"} /\ z.dtype \in DOMAIN DTYPE_BYTES
    /\ z.config \in [num_hidden_layers : Nat, hidden_size : Nat, num_attention_heads : Nat, num_key_value_heads : Nat,
                     head_dim : Nat, kv_lora_rank : Nat, qk_rope_head_dim : Nat, cla_share_factor : Nat]
    /\ WholeHeads(resolve_family(z.named, z.config), z.config)
    /\ z.tp \in Nat /\ z.p.chunk_tokens \in Nat /\ z.p.page_size \in Int /\ z.p.scope \in {"per_tensor", "per_page_head"}
    /\ z.p.strings \in Nat /\ z.p.metadata \in Nat /\ z.p.block_align \in Nat \ {0} /\ z.p.pad \in BOOLEAN
    /\ z.profile.block \in Nat \ {0}
ASSUME SizesAssumption == \A z \in Sizes : Sizeable(z)

SizeInit == \E z \in Sizes : sized = {z}
SizeSpec == SizeInit /\ [][UNCHANGED sized]_sized

\* The representations of a chunk: on every rank K and V are together the
\* rank's share of the chunk, the shares cover it (exactly, unless heads are
\* replicated), each holds at least one whole head, the scales cover every page and head,
\* and a padded object ends on a block boundary and fits its extent.
ShardsCoverChunk == \A z \in sized :
    LET detail == kv_cache_bytes(z.named, z.config, z.p.chunk_tokens, z.dtype)
    IN \A name \in DOMAIN REPRESENTATIONS :
         ~Underivable(name, detail, z.tp, z.p) =>
           LET r == derive_representation(name, detail, z.dtype, z.tp, z.p)
               whole == shard_kv_bytes(detail.total_bytes, detail, z.tp)
           IN /\ 2 * r.plane = whole.bytes /\ r.ranks = whole.ranks
              /\ r.ranks * r.plane * 2 >= detail.total_bytes
              /\ 2 * r.plane * detail.kv_heads >= detail.total_bytes \/ detail.kv_heads = 0
              /\ detail.kv_heads >= z.tp => r.ranks * r.plane * 2 = detail.total_bytes
              /\ REPRESENTATIONS[name].codec /\ z.p.scope = "per_page_head" =>
                   r.components.scales * r.ranks
                     >= 4 * (z.p.chunk_tokens \div z.p.page_size) * detail.kv_heads
              /\ z.p.pad => r.payload_bytes % z.p.block_align = 0
              /\ r.physical >= z.p.metadata + r.payload_bytes

\* A set of representations binds its intents: the set derived is valid, one
\* in which two unlike intents changed places is not, and the host budget
\* given to the control is the K plane of every object.
SetBindsIntents == \A z \in sized :
    LET detail == kv_cache_bytes(z.named, z.config, z.p.chunk_tokens, z.dtype)
        names == DOMAIN REPRESENTATIONS
        set == derive_representation_set(detail, z.dtype, z.tp, z.p, 2)
    IN (\A n \in names : ~Underivable(n, detail, z.tp, z.p)) =>
         /\ validate_representation_set(set.manifest, set.intents)
         /\ \A n, o \in names : set.intents[n] # set.intents[o] =>
              ~validate_representation_set(set.manifest, [set.intents EXCEPT ![n] = set.intents[o], ![o] = set.intents[n]])
         /\ set.manifest.host_budget = 2 * set.manifest.objects_per_chunk * set.manifest.entries["bf16_kv"].components.k

\* content_profile.py: "ranged reads agree with full reads", for every
\* profile, offset and length.
RangedReadsAgree == \A z \in sized :
    \A offset, length \in 0 .. 2 * z.profile.block + 1 :
        content(z.profile, z.tp, offset, length)
          = SubSeq(content(z.profile, z.tp, 0, offset + length), offset + 1, offset + length)

\* The sizes of KV shards and the content written in them add up
\* (kv_geometry, kv_representation, content_profile).
SizesAddUp == ShardsCoverChunk /\ SetBindsIntents /\ RangedReadsAgree

============================================================================
