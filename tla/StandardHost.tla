----------------------------- MODULE StandardHost -----------------------------
(***************************************************************************)
(* The host calls of the v2 runner, as far as a script can tell: without   *)
(* those of entities, saves, assets, sounds, scenes and randomness, of     *)
(* which Runner has what entities and saves change.                        *)
(***************************************************************************)
EXTENDS Values, FiniteSets, TLC

host_id ==
    [CORE_LEN |-> 90, CORE_SET_FIELD |-> 91, CORE_SET_INDEX |-> 92,
     CORE_ASSERT |-> 93, UI_SAY |-> 100, INPUT_CHOICE |-> 110,
     TIME_SLEEP |-> 120, TIME_TICK |-> 121, WORLD_EMIT |-> 143]

registry == {host_id[name] : name \in DOMAIN host_id}

\* What the host computes for the script; a missing argument counts as nil (the
\* VM does not look at the numbers of arguments that the registry holds).  The
\* calls that change something else are remembered (said) and give nil.
call_host(id, args) ==
    LET q == args \o <<Nil, Nil, Nil>>
        object == q[1]
        key    == IF q[2].tag = "integer" THEN q[2].integer ELSE -1
    IN  CASE id = host_id.CORE_LEN ->
               (CASE object.tag = "array"  -> Integer(Len(object.items))
                  [] object.tag = "table"  ->
                         Integer(Cardinality(DOMAIN object.fields))
                  [] object.tag = "string" -> Integer(Len(object.text))
                  [] OTHER -> Failure("HostError"))
          [] id = host_id.CORE_SET_FIELD ->
               IF object.tag # "table" \/ key < 0 THEN Failure("HostError")
               ELSE Table((key :> q[3]) @@ object.fields)
          [] id = host_id.CORE_SET_INDEX ->
               IF \/ object.tag # "array"
                  \/ key \notin 0..Len(object.items) - 1
               THEN Failure("HostError")
               ELSE Array([object.items EXCEPT ![key + 1] = q[3]])
          [] id = host_id.CORE_ASSERT ->
               IF object = Bool(TRUE) THEN Nil ELSE Failure("HostError")
          [] id = host_id.TIME_TICK -> Integer(0)
          [] OTHER -> Nil

Silent == {host_id.CORE_LEN, host_id.CORE_SET_FIELD, host_id.CORE_SET_INDEX}
=============================================================================
