------------------------------- MODULE Registry -------------------------------
(***************************************************************************)
(* The map of named streams (internal/streams/streams.go).  A name is      *)
(* registered with a stream object, and two names may share one: Patch     *)
(* links a name to the stream that the source itself names, either         *)
(* literally or as the path of any rtsp:// URL.  Every operation holds     *)
(* streamsMu, so each is one step of whoever calls it.                     *)
(*                                                                         *)
(* An object stands for a stream with one producer and a plain source;     *)
(* {input} templates and streams of several sources are left out.          *)
(***************************************************************************)
EXTENDS Naturals, FiniteSets

CONSTANTS
    Names,      \* names of streams
    NoName,
    Sources,    \* source URLs
    NoSource,
    Supported,  \* the sources that HasProducer and Validate accept
    LinksTo     \* the name a source is equal to or has as its rtsp path

ASSUME RegistryAssumption ==
    /\ NoName \notin Names
    /\ NoSource \notin Sources
    /\ Supported \subseteq Sources
    /\ LinksTo \in [Sources -> Names \cup {NoName}]
    /\ IsFiniteSet(Names)

VARIABLES
    streams,    \* streams[n]: the object registered under n, or NoObject
    sourceOf    \* sourceOf[o]: the url of the object's producer

registry == <<streams, sourceOf>>

Objects == 1 .. Cardinality(Names)
NoObject == 0

RegistryTypeOK ==
    /\ streams \in [Names -> Objects \cup {NoObject}]
    /\ sourceOf \in [Objects -> Sources \cup {NoSource}]

Known(n) == streams[n] # NoObject

(* Sources(): what a stream plays when somebody watches it. *)
SourceAt(n) == IF Known(n) THEN sourceOf[streams[n]] ELSE NoSource

(* The registry becomes st; objects no name leads to are collected. *)
Publish(st, src) ==
    /\ streams' = st
    /\ sourceOf' = [o \in Objects |-> IF \E n \in Names : st[n] = o THEN src[o] ELSE NoSource]

(* NewStream(source), stored under the name whatever was there before. *)
Create(n, s) ==
    LET o == CHOOSE fresh \in Objects : \A m \in Names \ {n} : streams[m] # fresh
    IN  Publish([streams EXCEPT ![n] = o], [sourceOf EXCEPT ![o] = s])

New(n, s) == s \in Supported /\ Create(n, s)

Linked(s) == LinksTo[s] # NoName /\ Known(LinksTo[s])

Patch(n, s) ==
    \/ /\ Linked(s)
       /\ Publish([streams EXCEPT ![n] = streams[LinksTo[s]]], sourceOf)
    \/ /\ ~Linked(s) /\ s \in Supported
       /\ IF Known(n) THEN Publish(streams, [sourceOf EXCEPT ![streams[n]] = s])
                      ELSE Create(n, s)

(* Patch returns an error and leaves the map alone. *)
PatchFails(s) == ~Linked(s) /\ s \notin Supported /\ UNCHANGED registry

Delete(n) == Publish([streams EXCEPT ![n] = NoObject], sourceOf)

(* streams.Init: one stream for each entry of the configuration file. *)
Load(config) ==
    LET objectOf == CHOOSE f \in [Names -> Objects] : \A n, m \in Names : f[n] = f[m] => n = m
    IN  Publish([n \in Names |-> IF config[n] = NoSource THEN NoObject ELSE objectOf[n]],
                [o \in Objects |-> config[CHOOSE n \in Names : objectOf[n] = o]])
=============================================================================
