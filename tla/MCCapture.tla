----------------------------- MODULE MCCapture -----------------------------
(***************************************************************************)
(* The kvio capture, document and planning components on small instances.  *)
(* They share no state: part says which of them a behaviour runs, and the  *)
(* variables of the others keep one initial value.                         *)
(***************************************************************************)
EXTENDS Capture, S3Client, Documents, AgentPlan, Geometry

CONSTANTS Part, c1, c2, k1

VARIABLE part

\* LMCache: two callers, which are alike, of one object, live when the capture
\* begins.
CallerSymmetry == Permutations(Callers)
MCBytes == [k \in {k1} |-> 1]

\* A directory that holds one file of one byte.
a == <<"a">>
d == <<"d">>
da == <<"d", "a">>
db == <<"d", "b">>
eb == <<"e", "b">>
MCFiles == [x \in {a} |-> 1]
MCDirs == {<<>>, d}
MCPosixCalls ==
    [call : {"open"}, path : {a, da, eb}, flags : {{"rd"}, {"rdwr", "creat"}, {"wr", "creat", "excl"}, {"wr", "append"}}]
    \cup [call : {"close", "fstat"}, fd : {1, 2}]
    \cup [call : {"pwrite", "pread"}, fd : {1, 2}, offset : {0, 1}, length : {1}]
    \cup [call : {"write", "read"}, fd : {1}, length : {1}]
    \cup [call : {"unlink"}, path : {a, da}]
    \cup [call : {"mkdir", "rmdir", "readdir"}, path : {d}]
    \cup [call : {"rename"}, path : {a, da}, new_path : {a, da, db}]
    \cup [call : {"rename"}, path : {d}, new_path : {<<"e">>}]
    \cup [call : {"truncate"}, path : {a}, size : {0, 2}]

\* A bucket with one object, two keys under one prefix and one outside.
kx == <<"p", "x">>
ky == <<"p", "y">>
kz == <<"z">>
MCStored == {ky}
MCS3Calls ==
    [call : {"put"}, key : {kx, kz}, size : {1, 2}]
    \cup [call : {"get", "head", "delete"}, key : {kx, ky}]
    \cup [call : {"get"}, key : {kx}, offset : {1}, length : {1}]
    \cup [call : {"list"}, prefix : {<<>>, <<"p">>}]
    \cup [call : {"mpu_create"}, key : {kx}]
    \cup [call : {"mpu_part"}, key : {kx}, upload : {1, 2}, part : {1, 2}, size : {1}]
    \cup [call : {"mpu_complete", "mpu_abort"}, key : {kx}, upload : {1, 2}]

\* Prompts of up to three chunks of two tokens that share prefixes, repeat a
\* chunk, or end in a tail; rounds of two sessions.
MCPrompts == {<<0, 0, 1, 1>>, <<0, 0, 1, 1, 2, 2>>, <<1, 1, 0, 0>>, <<0, 0, 0, 0>>, <<2, 2, 1, 1, 0>>, <<0>>}
MCRounds == [session : {1, 2}, total : {1, 2, 5}, prefix : {0, 2, 4}]

\* Dimensions up to two of everything; several commands to an object with
\* one or two byte limits.
MCDims == [chunks : 1 .. 2, streams : 1 .. 2, iters : {1}, warmup : 0 .. 1, ranks : 1 .. 2, payload : {5}, metadata : {3}]
          \cup [chunks : {1}, streams : {1, 2}, iters : {2}, warmup : {0}, ranks : {1}, payload : {1, 5}, metadata : {0, 3}]
MCLimits == {{2}, {3, 4}, {8}}

\* A model whose family its dimensions decide, heads fewer than, as many as
\* and more than the ranks, and content in blocks of three bytes.
MCConfigs == [num_hidden_layers : {2}, hidden_size : {8}, num_attention_heads : {2, 4}, num_key_value_heads : {1, 2, 4},
              head_dim : {0, 3}, kv_lora_rank : {0}, qk_rope_head_dim : {0}, cla_share_factor : {0, 2}]
             \cup {[num_hidden_layers |-> 1, hidden_size |-> 8, num_attention_heads |-> 2, num_key_value_heads |-> 2,
                    head_dim |-> 0, kv_lora_rank |-> 3, qk_rope_head_dim |-> 1, cla_share_factor |-> 0]}
MCParameters == [scope : {"per_tensor", "per_page_head"}, page_size : {2}, chunk_tokens : {4}, strings : {6},
                 pad : BOOLEAN, block_align : {16}, metadata : {5}]
MCProfiles == [name : {"zeros", "random", "mixed"}, classes : {<<"zero", "pattern", "unique">>, <<"unique">>},
               pattern_len : {2}, dup_classes : {0, 2}, block : {3}]
MCSized == {z \in [named : {"default", "cla"}, config : MCConfigs, dtype : {"bfloat16", "int8"}, tp : {1, 2, 4},
                   p : MCParameters, profile : {CHOOSE f \in MCProfiles : TRUE}] :
               z.named = "cla" => z.config.cla_share_factor # 0}
           \cup [named : {"default"}, config : {CHOOSE c \in MCConfigs : TRUE}, dtype : {"int8"}, tp : 1 .. 3,
                 p : {CHOOSE p \in MCParameters : TRUE}, profile : MCProfiles]

Init ==
    /\ part \in Part
    /\ CapInit /\ PosixInit /\ S3Init
    /\ PlanInit /\ (part # "plan" => source.format = "tracelab")
    /\ IF part = "documents" THEN DocumentsInit
       ELSE dims = None /\ limits = {}
    /\ IF part = "sizes" THEN SizeInit ELSE sized = {}

Next ==
  /\ UNCHANGED <<part, documentVars, sized>>
  /\ \/ part = "lmcache" /\ CapNext /\ UNCHANGED <<posixVars, s3Vars, planVars>>
     \/ part = "posix" /\ cause \cap {"hole", "append", "unknown handle", "moved"} = {} /\ PosixNext
         /\ UNCHANGED <<capVars, s3Vars, planVars>>
     \/ part = "s3" /\ cause3 \ {"beyond the fake"} = {} /\ S3Next /\ UNCHANGED <<capVars, posixVars, planVars>>
     \/ part = "plan" /\ PlanNext /\ UNCHANGED <<capVars, posixVars, s3Vars>>

Spec == Init /\ [][Next]_<<part, capVars, posixVars, s3Vars, planVars, documentVars, sized>>

\* A capture of a core's, of file or of object calls replays with the outcomes
\* it recorded (normalize_capture, posix_fs, s3_client).
CallsReplay == SerialCaptureReplays /\ PosixReplays /\ S3Replays
============================================================================
