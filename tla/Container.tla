------------------------------- MODULE Container -------------------------------
(***************************************************************************)
(* WARC version 1 (wmarchive: builder.rs, streaming.rs, manifest.rs,       *)
(* security.rs): how an archive is laid out, and what its two readers find *)
(* in it.                                                                  *)
(*                                                                         *)
(* A file is a sequence of units: a header, a security header, a table     *)
(* entry, an entry of a manifest or one piece of a payload is one unit,    *)
(* where the code writes bytes.  A file that ends inside a unit reads as   *)
(* one that ends before it.  Offsets count units from 0, as in the code.   *)
(* What is refused is NotRead; the digests and signatures are collision    *)
(* free: what they are computed from.                                      *)
(***************************************************************************)
EXTENDS Integers, SequencesExt, FiniteSetsExt

CONSTANT Block      \* alignment of the first section: 16 bytes in the code

\* What may be aligned to (the masks of align_up align to nothing else), as far
\* as the integers of TLC go.
PowersOfTwo == {2^k : k \in 0..30}

ASSUME BlockAssumption == Block \in Nat \ {0} /\ Block \in PowersOfTwo

\* A list, of whatever elements, and its elements at the indices I.
IsList(q) == Len(q) \in Nat /\ q = [i \in 1..Len(q) |-> q[i]]
Those(q, I) == FlattenSeq([i \in DOMAIN q |-> IF i \in I THEN <<q[i]>> ELSE <<>>])

NotRead == [unit |-> "nothing"]
IsRead(x) == x # NotRead

Padding == [unit |-> "padding"]

TableOffset == 2    \* after the two headers
NoKey       == "none"

(***************************************************************************)
(* Manifest::encode and Manifest::decode.  The first four lists always     *)
(* are there, their lengths in the head; the last two came later, and a    *)
(* manifest may end where one of them would begin.                         *)
(***************************************************************************)

Count(list) == [unit |-> "count", count |-> Len(list)]

EncodeManifest(m) ==
    <<[unit |-> "manifest", entry |-> m.entry,
       extensions |-> Len(m.extensions), archives |-> Len(m.archives),
       digests |-> Len(m.digests), names |-> Len(m.names)]>>
        \o m.extensions \o m.archives \o m.digests \o m.names
        \o <<Count(m.places)>> \o m.places
        \o <<Count(m.workers)>> \o m.workers

\* The n units that follow the first `at` ones.
Taken(units, at, n) == SubSeq(units, at + 1, at + n)

\* A list with its own length, or none where the manifest has ended.
HasLater(units, at)  == at < Len(units)
LaterCount(units, at) == IF HasLater(units, at) THEN units[at + 1].count ELSE 0
AfterLater(units, at) ==
    IF HasLater(units, at) THEN at + 1 + LaterCount(units, at) ELSE at

DecodeManifest(units) ==
    IF units = <<>> \/ units[1].unit # "manifest" THEN NotRead
    ELSE LET head     == units[1]
             archives == 1 + head.extensions
             digests  == archives + head.archives
             names    == digests + head.digests
             places   == names + head.names
             workers  == AfterLater(units, places)
         IN  IF Len(units) < places \/ Len(units) < workers
                 \/ Len(units) < AfterLater(units, workers)
             THEN NotRead
             ELSE [entry      |-> head.entry,
                   extensions |-> Taken(units, 1, head.extensions),
                   archives   |-> Taken(units, archives, head.archives),
                   digests    |-> Taken(units, digests, head.digests),
                   names      |-> Taken(units, names, head.names),
                   places     |-> Taken(units, places + 1, LaterCount(units, places)),
                   workers    |-> Taken(units, workers + 1, LaterCount(units, workers))]

DigestOf(id, kind, flags, size, payload) == <<id, kind, flags, size, payload>>

\* The digest entry a writer pushes for a section.
SectionDigest(s) ==
    [unit |-> "digest", section |-> s.id, flags |-> s.flags,
     digest |-> DigestOf(s.id, s.kind, s.flags, Len(s.payload), s.payload)]

(***************************************************************************)
(* ArchiveBuilder.                                                         *)
(***************************************************************************)

\* Of a power of two, or 0: then `(at + mask) & !mask` with `mask` one less is
\* the next multiple.
align_up(at, align) == IF align <= 1 THEN at ELSE ((at + align - 1) \div align) * align

DistinctIds(sections) ==
    \A i, j \in DOMAIN sections : sections[i].id = sections[j].id => i = j

\* The members of a finite set of numbers, the smallest first.
Ascending(ids) ==
    [k \in 1..Cardinality(ids) |->
        CHOOSE x \in ids : Cardinality({y \in ids : y < x}) = k - 1]

\* Sections of distinct ids in the order of their ids.
ById(sections) ==
    LET order == Ascending({sections[i].id : i \in DOMAIN sections})
    IN  [k \in DOMAIN order |->
            sections[CHOOSE i \in DOMAIN sections : sections[i].id = order[k]]]

\* Wrong on purpose (as every definition with a `__`): every section starts
\* where the first one does.
Starts__NotBehind(sections) ==
    LET first == align_up(TableOffset + Len(sections), Block)
    IN  [i \in DOMAIN sections |-> align_up(first, sections[i].align)]

\* The offset of every section, each behind the one before it.
Starts(sections) ==
    LET first == align_up(TableOffset + Len(sections), Block)
        start[i \in DOMAIN sections] ==
            align_up(IF i = 1 THEN first ELSE start[i - 1] + Len(sections[i - 1].payload),
                     sections[i].align)
    IN  start

Entry(s, offset) ==
    [unit |-> "entry", id |-> s.id, kind |-> s.kind, flags |-> s.flags, align |-> s.align,
     hash |-> s.hash, offset |-> offset, packed |-> Len(s.payload), unpacked |-> Len(s.payload)]

\* The bytes of the sections, ordered by id, each at its offset.
Laid(sections, start, key) ==
    LET n      == Len(sections)
        length == IF n = 0 THEN TableOffset ELSE start[n] + Len(sections[n].payload)
        header == [unit |-> "header", count |-> n, table |-> TableOffset, security |-> 1,
                   signatureAt |-> 0, signatureSize |-> 0]
    IN  [p \in 1..length |->
            IF p = 1 THEN header
            ELSE IF p = 2 THEN [unit |-> "security", key |-> key]
            ELSE IF p <= TableOffset + n THEN Entry(sections[p - 2], start[p - 2])
            ELSE IF \E i \in 1..n : p - start[i] \in 1..Len(sections[i].payload)
                 THEN LET i == CHOOSE i \in 1..n : p - start[i] \in 1..Len(sections[i].payload)
                      IN  sections[i].payload[p - start[i]]
                 ELSE Padding]

\* ArchiveBuilder::build, of sections with distinct ids.
build(sections, key) == LET sorted == ById(sections) IN Laid(sorted, Starts(sorted), key)

\* Signs the table and the sections, without the headers.
Signature__PastHeaders(key, units) ==
    [unit |-> "signature", key |-> key, signs |-> SubSeq(units, 3, Len(units))]

Signature(key, units) == [unit |-> "signature", key |-> key, signs |-> units]

build_signed(sections, key) ==
    LET units   == build(sections, key)
        patched == [units EXCEPT ![1].signatureAt = Len(units), ![1].signatureSize = 1]
    IN  Append(patched, Signature(key, units))

(***************************************************************************)
(* The readers.  Archive::decode has all the bytes and expects the         *)
(* security header and the table where the builder puts them;              *)
(* ArchiveStreamReader seeks to where the header says they are.            *)
(***************************************************************************)

\* A section may end behind the file.
verify_layout__AnyEnd(entries, length) == DistinctIds(entries)

verify_layout(entries, length) ==
    /\ DistinctIds(entries)
    /\ \A i \in DOMAIN entries : entries[i].offset + entries[i].packed <= length

Opened(units, security, table) ==
    IF Len(units) = 0 \/ units[1].unit # "header" THEN NotRead
    ELSE IF Len(units) < security + 1 \/ Len(units) < table + units[1].count THEN NotRead
    ELSE LET entries == Taken(units, table, units[1].count)
         IN  IF ~verify_layout(entries, Len(units)) THEN NotRead
             ELSE [header |-> units[1], security |-> units[security + 1],
                   entries |-> entries, units |-> units]

Archive_decode(units) == Opened(units, 1, TableOffset)

Stream_open(units) ==
    IF units = <<>> \/ units[1].unit # "header" THEN NotRead
    ELSE Opened(units, units[1].security, units[1].table)

section_bytes(archive, entry) == Taken(archive.units, entry.offset, entry.packed)

HasSection(archive, id) == \E i \in DOMAIN archive.entries : archive.entries[i].id = id
section(archive, id) ==
    archive.entries[CHOOSE i \in DOMAIN archive.entries : archive.entries[i].id = id]

OfKind(list, kind) == {i \in DOMAIN list : list[i].kind = kind}
Manifests(archive) == OfKind(archive.entries, "Manifest")

\* The manifest of an archive that has one.
manifest(archive) ==
    DecodeManifest(section_bytes(archive, archive.entries[Min(Manifests(archive))]))

\* A digest of a section that is not there holds.
DigestHolds__Skip(archive, d) ==
    HasSection(archive, d.section) =>
       LET s == section(archive, d.section)
       IN  d.digest = DigestOf(s.id, s.kind, d.flags, s.unpacked, section_bytes(archive, s))

DigestHolds(archive, d) ==
    /\ HasSection(archive, d.section)
    /\ LET s == section(archive, d.section)
       IN  d.digest = DigestOf(s.id, s.kind, d.flags, s.unpacked, section_bytes(archive, s))

\* Looks at the first digest only.
verify_manifest_digests__First(archive) ==
    Manifests(archive) # {} =>
        LET m == manifest(archive)
        IN  IsRead(m) /\ (m.digests # <<>> => DigestHolds(archive, m.digests[1]))

\* A section that no digest names is not looked at.
verify_manifest_digests(archive) ==
    Manifests(archive) # {} =>
        LET m == manifest(archive)
        IN  IsRead(m) /\ \A i \in DOMAIN m.digests : DigestHolds(archive, m.digests[i])

\* ArchiveVerifier::verify, with the keys of a ring: an archive without a
\* signature passes.
SignedPart(archive) ==
    [SubSeq(archive.units, 1, archive.header.signatureAt) EXCEPT
        ![1].signatureAt = 0, ![1].signatureSize = 0]

verify_signature(archive, ring) ==
    archive.header.signatureSize # 0 =>
       LET at == archive.header.signatureAt + 1
       IN  /\ at <= Len(archive.units)
           /\ archive.security.key \in ring
           /\ archive.units[at] = Signature(archive.security.key, SignedPart(archive))

\* ArchiveBundle::from_archive: the bytes of every section.
unpack(archive) ==
    IF ~verify_manifest_digests(archive) THEN NotRead
    ELSE [sections |->
             [i \in DOMAIN archive.entries |-> section_bytes(archive, archive.entries[i])]]

=============================================================================
