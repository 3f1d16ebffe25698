------------------------------- MODULE Delivery -------------------------------
(***************************************************************************)
(* From the file a build writes to what a runtime loads of it: archives    *)
(* (ArchiveBuilder; Runtime::load_archive, load_archive_reader,            *)
(* ResourceManager::ingest_archive), what a Toolchain runs of an archive,  *)
(* packages and programs (wms: build.rs, run_archive).                     *)
(*                                                                         *)
(* On its way a file may lose its end, as an interrupted copy does, or one *)
(* of its units may change.  An archive may be loaded again, before and    *)
(* after that, through either reader; but what is loaded of one in which a *)
(* unit changed that says where or what the others are depends on bytes,   *)
(* and is not modelled: of such a file the model has what the readers and  *)
(* the verifiers make of it.                                               *)
(***************************************************************************)
EXTENDS Packages

CONSTANTS
    Pushable,       \* bound of the model: the sections a build may push
    MaxSections,    \* bound of the model: sections of an archive
    Keys,           \* of the signers
    Packaged,       \* bound of the model: the version 2 packages written
    Programs,       \* bound of the model: the programs written
    ResourceId,
    MaxLoads        \* bound of the model: manifests a runtime lists

ASSUME DeliveryBoundsAssumption == MaxSections \in Nat /\ MaxLoads \in Nat
ASSUME KeysAssumption == NoKey \notin Keys
ASSUME PushableAssumption ==
    \A s \in Pushable :
        /\ s = [id |-> s.id, kind |-> s.kind, flags |-> s.flags, align |-> s.align,
                hash |-> s.hash, payload |-> s.payload]
        /\ s.id \in Nat /\ s.kind # "Manifest" /\ IsList(s.payload)
        /\ s.align \in Nat /\ s.align \in {0} \cup PowersOfTwo
ASSUME ProgramsAssumption == \A p \in Programs : IsProgram(p)
ASSUME PackagedAssumption ==
    \A p \in Packaged :
        /\ p = [manifest |-> p.manifest, capabilities |-> p.capabilities,
                program |-> p.program, schema |-> p.schema, assets |-> p.assets]
        /\ IsProgram(p.program)
        /\ IsList(p.capabilities) /\ IsList(p.schema) /\ IsList(p.assets)
        /\ \A i \in DOMAIN p.assets : LET a == p.assets[i] IN
               /\ a = [id |-> a.id, kind |-> a.kind, name |-> a.name, units |-> a.units]
               /\ IsList(a.units)

VARIABLES
    written,    \* what the build was given: sections and key, package or program
    file,       \* <<>> before it is written
    fault,      \* what happened to the file
    data,       \* resource id -> payload of its ready entry
    catalog,    \* ResourceCatalog::by_id: resource id -> section, offset and size
    names,      \* ResourceCatalog::by_name_hash
    listed,     \* Runtime::loaded_archives, each with the call that listed it
    workers,    \* the programs a Toolchain spawned, each with its section
    running     \* the program that run_archive of wms runs

loadVars    == <<data, catalog, names, listed>>
runtimeVars == <<loadVars, workers, running>>
vars        == <<written, file, fault, runtimeVars>>

ManifestId == 1
Nothing    == [x \in {} |-> x]
Put(f, k, v) == [x \in DOMAIN f \cup {k} |-> IF x = k THEN v ELSE f[x]]

Init ==
    /\ written = [format |-> "v1", sections |-> <<>>, key |-> NoKey]
    /\ file = <<>> /\ fault = "none"
    /\ data = Nothing /\ catalog = Nothing /\ names = Nothing
    /\ listed = <<>> /\ workers = <<>> /\ running = Nothing

(***************************************************************************)
(* The build.                                                              *)
(***************************************************************************)

Sections    == IF written.format = "v1" THEN written.sections ELSE <<>>
HasManifest == \E i \in DOMAIN Sections : Sections[i].kind = "Manifest"
Building    == written.format = "v1" /\ file = <<>> /\ fault = "none"

push_section(s) ==
    /\ Building /\ ~HasManifest
    /\ Len(Sections) < MaxSections
    /\ written' = [written EXCEPT !.sections = Append(@, s)]
    /\ UNCHANGED <<file, fault, runtimeVars>>

\* The ids of the module sections are the roles of their workers, in the order
\* in which they are spawned (GameWorkerRole).
Engine == 4

\* The section of the engine, or of the first module, or 2.
EntryModule(modules) ==
    IF \E i \in DOMAIN modules : modules[i].id = Engine THEN Engine
    ELSE IF modules # <<>> THEN modules[1].id ELSE 2

\* Toolchain::build_manifest: a digest for the sections in `covered`, a name
\* and a place for every asset with a resource header, a worker for every
\* module.
ManifestOf(sections, covered) ==
    LET assets  == Those(sections, {i \in OfKind(sections, "Asset") :
                                        sections[i].payload # <<>>})
        modules == Those(sections, OfKind(sections, "Module"))
        digests == Those(sections, {i \in DOMAIN sections : sections[i].id \in covered})
    IN  [entry      |-> EntryModule(modules),
         extensions |-> <<[unit |-> "extension"]>>,
         archives   |-> <<>>,
         digests    |-> [i \in DOMAIN digests |-> SectionDigest(digests[i])],
         names      |-> [i \in DOMAIN assets |->
                            [unit |-> "name", hash |-> assets[i].hash,
                             resource |-> assets[i].payload[1].id]],
         places     |-> [i \in DOMAIN assets |-> [unit |-> "place", section |-> assets[i].id]],
         workers    |-> [i \in DOMAIN modules |-> [unit |-> "worker", section |-> modules[i].id]]]

\* An older build ended its manifest before the places.
Legacy(units) == SubSeq(units, 1, 1 + units[1].extensions + units[1].archives
                                    + units[1].digests + units[1].names)

ManifestSection(sections, covered, legacy) ==
    LET units == EncodeManifest(ManifestOf(sections, covered))
    IN  [id |-> ManifestId, kind |-> "Manifest", flags |-> 0, align |-> Block, hash |-> 0,
         payload |-> IF legacy THEN Legacy(units) ELSE units]

push_manifest(covered, legacy) ==
    /\ Building /\ ~HasManifest
    /\ written' = [written EXCEPT !.sections =
                       Append(@, ManifestSection(Sections, covered, legacy))]
    /\ UNCHANGED <<file, fault, runtimeVars>>

Build ==
    /\ Building /\ DistinctIds(Sections)
    /\ file' = build(Sections, NoKey)
    /\ UNCHANGED <<written, fault, runtimeVars>>

BuildSigned(key) ==
    /\ Building /\ DistinctIds(Sections)
    /\ written' = [written EXCEPT !.key = key]
    /\ file' = build_signed(Sections, key)
    /\ UNCHANGED <<fault, runtimeVars>>

\* wms package: a program with its schema and assets.
WritePackage(p) ==
    /\ Building /\ Sections = <<>>
    /\ validate_assets(p.assets)
    /\ written' = [format |-> "v2", package |-> p]
    /\ file' = EncodePackage([p EXCEPT !.program = encode_binary(p.program)])
    /\ UNCHANGED <<fault, runtimeVars>>

\* wms build: a program without a package.
WriteProgram(p) ==
    /\ Building /\ Sections = <<>>
    /\ written' = [format |-> "program", program |-> p]
    /\ file' = encode_binary(p)
    /\ UNCHANGED <<fault, runtimeVars>>

(***************************************************************************)
(* Damage: the file is cut, or a unit of an archive is another one.        *)
(***************************************************************************)

\* What may become of a unit of what the sections and the manifest hold.
Damaged(u) ==
    CASE u.unit \in {"cell", "padding"} -> {[unit |-> "cell", value |-> "garbled"]}
      [] u.unit = "resource"  -> {[u EXCEPT !.size = @ + 1]}
                                     \cup {[u EXCEPT !.id = r] : r \in ResourceId \ {u.id}}
      [] u.unit = "function"  -> {[u EXCEPT !.size = @ + 1]}
      [] u.unit = "name"      -> {[u EXCEPT !.resource = r] : r \in ResourceId \ {u.resource}}
      [] u.unit = "digest"    -> {[u EXCEPT !.digest = <<>>]}
      [] u.unit = "signature" -> {[u EXCEPT !.signs = <<>>]}
      [] OTHER -> {}

\* What may become of a unit that says where or what others are: of a header,
\* of the table, of a head or a list of the manifest, of a program.  A length
\* or a place that changes is `far`, behind the end, or one off where what is
\* read instead is a unit of the same kind, or none.
Misled(u, far) ==
    CASE u.unit = "header" ->
            {[u EXCEPT !.table = far], [u EXCEPT !.security = far],
             [u EXCEPT !.signatureAt = far], [u EXCEPT !.signatureSize = 1 - @]}
                \cup {[u EXCEPT !.count = c] : c \in 0..(u.count - 1) \cup {far}}
      [] u.unit = "security" -> {[u EXCEPT !.key = k] : k \in Keys \cup {NoKey}}
      [] u.unit = "entry" ->
            {[u EXCEPT !.id = @ + 1], [u EXCEPT !.offset = @ + 1], [u EXCEPT !.offset = far],
             [u EXCEPT !.packed = IF u.kind = "Manifest" THEN far ELSE @ + 1],
             [u EXCEPT !.packed = IF @ = 0 THEN 0 ELSE @ - 1],
             [u EXCEPT !.unpacked = @ + 1], [u EXCEPT !.flags = @ + 1],
             [u EXCEPT !.align = @ + 1], [u EXCEPT !.hash = @ + 1]}
                \cup {[u EXCEPT !.kind = k] : k \in {"Manifest", "Module", "Asset"}}
      [] u.unit = "manifest" ->
            {[u EXCEPT !.entry = @ + 1], [u EXCEPT !.extensions = far],
             [u EXCEPT !.archives = far], [u EXCEPT !.digests = far], [u EXCEPT !.names = far]}
      [] u.unit \in {"count", "array", "table"} -> {[u EXCEPT !.count = far]}
      [] u.unit = "extension" -> {[unit |-> "extension", version |-> "other"]}
      [] u.unit \in {"place", "worker"} -> {[u EXCEPT !.section = @ + 1]}
      [] u.unit = "program" ->
            {[u EXCEPT !.entry = @ + 1], [u EXCEPT !.constants = far], [u EXCEPT !.functions = far]}
      [] u.unit = "scalar" -> {[u EXCEPT !.value = Nil]}
      [] u.unit = "key"    -> {[u EXCEPT !.key = @ + 1]}
      [] OTHER -> {}

Cut(length) ==
    /\ file # <<>> /\ fault = "none"
    /\ file' = SubSeq(file, 1, length)
    /\ fault' = "cut"
    /\ UNCHANGED <<written, runtimeVars>>

Garble(p) ==
    /\ fault = "none" /\ written.format = "v1"
    /\ \E u \in Damaged(file[p]) \ {file[p]} : file' = [file EXCEPT ![p] = u]
    /\ fault' = "garbled"
    /\ UNCHANGED <<written, runtimeVars>>

Mislead(p) ==
    /\ fault = "none" /\ written.format = "v1"
    /\ \E u \in Misled(file[p], Len(file)) \ {file[p]} : file' = [file EXCEPT ![p] = u]
    /\ fault' = "misled"
    /\ UNCHANGED <<written, runtimeVars>>

(***************************************************************************)
(* The runtime.  A load that is refused before it registers anything is no *)
(* step.                                                                   *)
(***************************************************************************)

\* One asset section: its entry, then its place in the catalog, which has
\* been replaced when a second place for the id is refused.
RegisterSection(archive, loaded, entry) ==
    LET units  == section_bytes(archive, entry)
        header == units[1]
    IN  IF units = <<>> \/ header.unit # "resource" \/ header.offset + header.size > Len(units)
        THEN [loaded EXCEPT !.failed = TRUE]
        ELSE [data    |-> Put(loaded.data, header.id, Taken(units, header.offset, header.size)),
              catalog |-> Put(loaded.catalog, header.id,
                              [section |-> entry.id, offset |-> header.offset,
                               size |-> header.size]),
              failed  |-> header.id \in DOMAIN loaded.catalog]

\* The asset sections in their order, up to the first that fails.
Registered(archive) ==
    LET loaded[k \in 0..Len(archive.entries)] ==
            IF k = 0 THEN [data |-> data, catalog |-> catalog, failed |-> FALSE]
            ELSE LET before == loaded[k - 1]
                     entry  == archive.entries[k]
                 IN  IF before.failed \/ entry.kind # "Asset" THEN before
                     ELSE RegisterSection(archive, before, entry)
    IN  loaded[Len(archive.entries)]

Named(list) ==
    FoldLeft(LAMBDA known, entry : Put(known, entry.hash, entry.resource), names, list)

\* The manifest of the archive, or nothing, as a list.
ManifestList(archive, call) ==
    IF Manifests(archive) = {} THEN <<>>
    ELSE <<[manifest |-> manifest(archive), call |-> call]>>

\* Bounds of the model.
MayLoad == Len(listed) < MaxLoads /\ fault # "misled"

Verified(archive) == IsRead(archive) /\ verify_manifest_digests(archive)

Register(archive) ==
    LET loaded == Registered(archive)
    IN  /\ data' = loaded.data /\ catalog' = loaded.catalog
        /\ names' = IF Manifests(archive) = {} THEN names ELSE Named(manifest(archive).names)

\* Lists the manifest whether its sections were loaded or not.
LoadArchive__Early(archive) ==
    /\ Register(archive)
    /\ listed' = listed \o ManifestList(archive, "load_archive")

\* Runtime::load_archive lists the manifest when everything is registered.
LoadArchive(archive) ==
    /\ Register(archive)
    /\ listed' = IF Registered(archive).failed THEN listed
                 ELSE listed \o ManifestList(archive, "load_archive")

\* Runtime::load_archive_reader lists it before it reads the first section.
LoadArchiveReader(archive) ==
    /\ Register(archive)
    /\ listed' = listed \o ManifestList(archive, "load_archive_reader")

load_archive ==
    LET archive == Archive_decode(file)
    IN  /\ Verified(archive) /\ MayLoad
        /\ LoadArchive(archive)
        /\ UNCHANGED <<written, file, fault, workers, running>>

load_archive_reader ==
    LET archive == Stream_open(file)
    IN  /\ Verified(archive) /\ MayLoad
        /\ LoadArchiveReader(archive)
        /\ UNCHANGED <<written, file, fault, workers, running>>

(***************************************************************************)
(* Toolchain::run_archive and run_archive_reader, of an archive with a     *)
(* manifest.                                                               *)
(***************************************************************************)

\* module_section_id: the entry, or the first module.
MainSection(archive, m) ==
    LET modules == Those(archive.entries, OfKind(archive.entries, "Module"))
    IN  IF HasSection(archive, m.entry) THEN m.entry
        ELSE IF modules # <<>> THEN modules[1].id ELSE 2

ProgramOf(archive, id) ==
    IF HasSection(archive, id) THEN decode_binary(section_bytes(archive, section(archive, id)))
    ELSE NotRead

\* The workers of the manifest; of an older one, the main program as the only
\* worker.
WorkerPrograms(archive, m) ==
    IF m.workers = <<>>
    THEN <<[section |-> MainSection(archive, m),
            program |-> ProgramOf(archive, MainSection(archive, m))]>>
    ELSE [i \in DOMAIN m.workers |->
             [section |-> m.workers[i].section,
              program |-> ProgramOf(archive, m.workers[i].section)]]

AllRead(programs) == \A i \in DOMAIN programs : IsRead(programs[i].program)

\* spawn_worker_programs: in the order of their roles, up to a program that
\* the verifier refuses, which only a damaged one can be.
Intact(program) ==
    \A id \in DOMAIN program.functions :
        \A i \in DOMAIN program.functions[id].code :
            program.functions[id].code[i].value # "garbled"

SpawnWorkers(programs) ==
    \E count \in 0..Len(programs) :
        /\ count < Len(programs) => ~Intact(programs[count + 1].program)
        /\ workers' = workers \o SubSeq(programs, 1, count)

\* Starts the workers of an archive that was not loaded, too.
run_archive__Anyway ==
    LET archive == Archive_decode(file)
        m       == manifest(archive)
    IN  /\ Verified(archive) /\ MayLoad
        /\ Manifests(archive) # {}
        /\ IsRead(ProgramOf(archive, MainSection(archive, m)))
        /\ AllRead(WorkerPrograms(archive, m))
        /\ LoadArchive(archive)
        /\ SpawnWorkers(WorkerPrograms(archive, m))
        /\ UNCHANGED <<written, file, fault, running>>

\* The programs are decoded, then the archive is loaded, then they start.
run_archive ==
    LET archive == Archive_decode(file)
        m       == manifest(archive)
    IN  /\ Verified(archive) /\ MayLoad
        /\ Manifests(archive) # {}
        /\ IsRead(ProgramOf(archive, MainSection(archive, m)))
        /\ AllRead(WorkerPrograms(archive, m))
        /\ LoadArchive(archive)
        /\ IF Registered(archive).failed THEN UNCHANGED workers
           ELSE SpawnWorkers(WorkerPrograms(archive, m))
        /\ UNCHANGED <<written, file, fault, running>>

\* Only the main program is decoded before the archive is loaded: it stays
\* loaded when that of a worker is refused.
run_archive_reader ==
    LET archive == Stream_open(file)
        m       == manifest(archive)
    IN  /\ Verified(archive) /\ MayLoad
        /\ Manifests(archive) # {}
        /\ IsRead(ProgramOf(archive, MainSection(archive, m)))
        /\ LoadArchiveReader(archive)
        /\ IF Registered(archive).failed \/ ~AllRead(WorkerPrograms(archive, m))
           THEN UNCHANGED workers
           ELSE SpawnWorkers(WorkerPrograms(archive, m))
        /\ UNCHANGED <<written, file, fault, running>>

\* run_archive of wms: of a package.
RunPackage ==
    LET p == DecodePackage(file)
    IN  /\ IsRead(p) /\ running = Nothing
        /\ IsRead(decode_binary(p.program))
        /\ running' = [program |-> decode_binary(p.program), schema |-> p.schema,
                       seed |-> p.manifest.seed]
        /\ UNCHANGED <<written, file, fault, loadVars, workers>>

Next ==
    \/ \E s \in Pushable : push_section(s)
    \/ \E covered \in SUBSET {Sections[i].id : i \in DOMAIN Sections}, legacy \in BOOLEAN :
            push_manifest(covered, legacy)
    \/ Build
    \/ \E key \in Keys : BuildSigned(key)
    \/ \E p \in Packaged : WritePackage(p)
    \/ \E p \in Programs : WriteProgram(p)
    \/ \E length \in 0..(Len(file) - 1) : Cut(length)
    \/ \E p \in DOMAIN file : Garble(p)
    \/ \E p \in DOMAIN file : Mislead(p)
    \/ load_archive
    \/ load_archive_reader
    \/ run_archive
    \/ run_archive_reader
    \/ RunPackage

Spec == Init /\ [][Next]_vars

----------------------------------------------------------------------------

Whole == file # <<>> /\ fault = "none"

\* What the reader finds of the section s, at an offset it is aligned to.
Found(archive, s) ==
    /\ HasSection(archive, s.id)
    /\ LET e == section(archive, s.id)
       IN  /\ <<e.kind, e.flags, e.hash, e.align>> = <<s.kind, s.flags, s.hash, s.align>>
           /\ section_bytes(archive, e) = s.payload
           /\ s.align > 1 => e.offset % s.align = 0

\* The digests the written manifest has; the manifest is the last pushed.
Covered == IF HasManifest
           THEN LET m == DecodeManifest(Sections[Len(Sections)].payload)
                IN  {m.digests[i].section : i \in DOMAIN m.digests}
           ELSE {}

\* Both readers and the unpacker find every section as it was pushed, and the
\* manifest: of an older one, without the places and the workers.
ArchiveIsRead(archive) ==
    /\ IsRead(archive)
    /\ Len(archive.entries) = Len(Sections)
    /\ \A i \in DOMAIN Sections : Found(archive, Sections[i])
    /\ verify_signature(archive, Keys)
    /\ IsRead(unpack(archive))
    /\ HasManifest =>
           LET m      == manifest(archive)
               pushed == Sections[Len(Sections)].payload
           IN  \/ m = ManifestOf(Sections, Covered) /\ pushed = EncodeManifest(m)
               \/ /\ m = [ManifestOf(Sections, Covered) EXCEPT !.places = <<>>, !.workers = <<>>]
                  /\ pushed = Legacy(EncodeManifest(m))

\* An entry with the largest id is written as no entry.
Kept(program) ==
    IF program.entry = MaxId THEN [program EXCEPT !.entry = NoEntry] ELSE program

\* A file that nothing happened to gives back what the build was given,
\* through every reader there is (ArchiveBuilder, Archive,
\* ArchiveStreamReader, ArchiveBundle, Manifest, ArchiveV2, Program).
WrittenIsRead ==
    Whole =>
        CASE written.format = "v1" ->
                ArchiveIsRead(Archive_decode(file)) /\ ArchiveIsRead(Stream_open(file))
          [] written.format = "v2" ->
                LET p == DecodePackage(file)
                IN  /\ IsRead(p)
                    /\ [p EXCEPT !.program = decode_binary(@)] =
                          [written.package EXCEPT !.program = Kept(@)]
          [] written.format = "program" -> decode_binary(file) = Kept(written.program)

\* The header has the signature where the build put it.
SignatureStands(header) ==
    header.signatureAt = Len(build(Sections, NoKey)) /\ header.signatureSize = 1

\* A signed archive of which a unit changed, or the end is lost, does not
\* verify, unless what changed is where the header says that the signature is:
\* that is not signed, and an archive that says it has none verifies.  A file
\* that lost its end is refused by its decoder, unless what an archive lost is
\* its signature (ArchiveVerifier::verify, normalized_signed_bytes,
\* verify_layout, ArchiveV2::decode, decode_binary).
DamageIsNoticed ==
    /\ fault # "none" /\ written.format = "v1" =>
          LET archive == Archive_decode(file)
          IN  written.key # NoKey /\ IsRead(archive) /\ SignatureStands(archive.header) =>
                 ~verify_signature(archive, Keys)
    /\ fault = "cut" =>
          CASE written.format = "v1" ->
                  (IsRead(Archive_decode(file)) \/ IsRead(Stream_open(file))) =>
                      written.key # NoKey /\ Len(file) = Len(build(Sections, NoKey))
            [] written.format = "v2"      -> ~IsRead(DecodePackage(file))
            [] written.format = "program" -> ~IsRead(decode_binary(file))

\* Whatever happened to the file, headers and table included: if the digests of
\* its manifest hold, either reader finds every section with a digest, and what
\* was written of it, unless the file says that it has no manifest
\* (verify_manifest_digests, digest_section, Manifest::decode, verify_layout).
DigestsVouch ==
    written.format = "v1" =>
        \A archive \in {Archive_decode(file), Stream_open(file)} :
            Verified(archive) /\ Manifests(archive) # {} =>
               \A i \in DOMAIN Sections : Sections[i].id \in Covered =>
                  /\ HasSection(archive, Sections[i].id)
                  /\ section_bytes(archive, section(archive, Sections[i].id)) = Sections[i].payload

\* What a runtime has of a section with a digest is what was written, under
\* its own id, and what it runs is the program that was built, whatever
\* happened to the file and however often it was loaded (load_archive,
\* load_archive_reader, register_ready, ResourceCatalog::insert,
\* decode_worker_programs_from_archive, run_archive).
OnlyWrittenIsLoaded ==
    /\ \A r \in DOMAIN catalog, i \in DOMAIN Sections :
          Sections[i].id = catalog[r].section /\ Sections[i].id \in Covered =>
             LET header == Sections[i].payload[1]
             IN  header.id = r /\ data[r] = Taken(Sections[i].payload, header.offset, header.size)
    /\ \A k \in DOMAIN workers, i \in DOMAIN Sections :
          Sections[i].id = workers[k].section /\ Sections[i].id \in Covered =>
             workers[k].program = decode_binary(Sections[i].payload)
    /\ running # Nothing =>
          /\ running.program = Kept(written.package.program)
          /\ running.schema = written.package.schema
          /\ running.seed = written.package.manifest.seed

IsAssetOf(s, m) ==
    /\ s.kind = "Asset"
    /\ \E i \in DOMAIN m.digests : m.digests[i].section = s.id
AssetsReady(m) ==
    \A i \in DOMAIN Sections :
        IsAssetOf(Sections[i], m) =>
            Sections[i].payload # <<>> /\ Sections[i].payload[1].id \in DOMAIN data

\* Nobody uses an archive of which a section failed half way: a manifest that
\* load_archive lists has its assets registered, and so has one whose workers
\* were started, through either reader (load_archive, load_archive_reader,
\* Toolchain::run_archive, run_archive_reader).
UsedIsRegistered ==
    /\ \A k \in DOMAIN listed :
          listed[k].call = "load_archive" => AssetsReady(listed[k].manifest)
    /\ workers # <<>> => AssetsReady(ManifestOf(Sections, Covered))

=============================================================================
