------------------------------ MODULE DomainMapper ------------------------------
(***************************************************************************)
(* app/core/DomainMapper.py: the two dictionaries behind HOSTS, which tell *)
(* the address of every server the application talks to and the server of  *)
(* an address.  They are populated from three settings, entry by entry;    *)
(* the methods that add and remove come after that.  The names of the      *)
(* specification are prefixed for modules that extend this one and another.*)
(***************************************************************************)
EXTENDS Sequences

CONSTANTS
    Domains,
    Ips,
    Configs,    \* the entries of PLESK_SERVERS, DNS_SLAVE_SERVERS and
                \* ADDITIONAL_HOSTS one after the other, <<domain, ips>>
    NoDomain    \* an address or a domain without an entry

Entries == Domains \X SUBSET Ips

ASSUME DMAssumption ==
    /\ Configs \subseteq Seq(Entries)
    /\ NoDomain \notin Domains
    /\ \A ips \in SUBSET Ips : ips # NoDomain

VARIABLES
    todo,           \* the entries of the settings not populated yet
    domain_to_ips,  \* NoDomain is an absent key; the order of a list is
                    \* left out
    ip_to_domains,  \* NoDomain is an absent key
    former,         \* history: the addresses each domain was given once and
                    \* not when it was given again
    removed         \* history: something was removed

dmVars == <<todo, domain_to_ips, ip_to_domains, former, removed>>

DMInit ==
    /\ todo \in Configs
    /\ domain_to_ips = [d \in Domains |-> NoDomain]
    /\ ip_to_domains = [i \in Ips |-> NoDomain]
    /\ former = [d \in Domains |-> {}]
    /\ removed = FALSE

IpsOf(d) == IF domain_to_ips[d] = NoDomain THEN {} ELSE domain_to_ips[d]

(* resolve_ip: the domain whose entry is shown; None when there is none or *)
(* it has no address.                                                      *)
ResolveIp(i) ==
    IF ip_to_domains[i] # NoDomain /\ IpsOf(ip_to_domains[i]) # {}
    THEN ip_to_domains[i] ELSE NoDomain

(* One round of update_mappings.  The addresses the domain had before keep *)
(* pointing to it; addresses other domains have now point to it too.       *)
UpdateEntry(d, ips) ==
    /\ domain_to_ips' = [domain_to_ips EXCEPT ![d] = ips]
    /\ ip_to_domains' = [i \in Ips |-> IF i \in ips THEN d
                                       ELSE ip_to_domains[i]]
    /\ former' = [former EXCEPT ![d] = (@ \cup IpsOf(d)) \ ips]

Populate ==
    /\ todo # << >>
    /\ UpdateEntry(Head(todo)[1], Head(todo)[2])
    /\ todo' = Tail(todo)
    /\ UNCHANGED removed

AddMapping(d, ips) ==
    /\ todo = << >>
    /\ UpdateEntry(d, ips)
    /\ UNCHANGED <<todo, removed>>

(* Mutation of RemoveDomain: the addresses are left behind.                *)
RemoveName(d) ==
    /\ todo = << >>
    /\ domain_to_ips' = [domain_to_ips EXCEPT ![d] = NoDomain]
    /\ removed' = TRUE
    /\ UNCHANGED <<todo, ip_to_domains, former>>

(* remove_domain: the addresses that point to it are removed, as far as    *)
(* they are in its list.                                                   *)
RemoveDomain(d) ==
    /\ todo = << >>
    /\ domain_to_ips[d] # NoDomain
    /\ domain_to_ips' = [domain_to_ips EXCEPT ![d] = NoDomain]
    /\ ip_to_domains' = [i \in Ips |->
           IF i \in IpsOf(d) /\ ip_to_domains[i] = d THEN NoDomain
           ELSE ip_to_domains[i]]
    /\ removed' = TRUE
    /\ UNCHANGED <<todo, former>>

(* remove_ip: the loop goes over the letters of the one domain stored, for *)
(* which domain_to_ips has nothing.                                        *)
RemoveIp(i) ==
    /\ todo = << >>
    /\ ip_to_domains[i] # NoDomain
    /\ ip_to_domains' = [ip_to_domains EXCEPT ![i] = NoDomain]
    /\ removed' = TRUE
    /\ UNCHANGED <<todo, domain_to_ips, former>>

DMNext ==
    \/ Populate
    \/ \E d \in Domains, ips \in SUBSET Ips : AddMapping(d, ips)
    \/ \E d \in Domains : RemoveDomain(d)
    \/ \E i \in Ips : RemoveIp(i)

DMSpec == DMInit /\ [][DMNext]_dmVars
--------------------------------------------------------------------------------
(***************************************************************************)
(* Properties                                                              *)
(***************************************************************************)

(* Type invariant. *)
DMTypeOK ==
    /\ todo \in Seq(Entries)
    /\ domain_to_ips \in [Domains -> (SUBSET Ips) \cup {NoDomain}]
    /\ ip_to_domains \in [Ips -> Domains \cup {NoDomain}]
    /\ former \in [Domains -> SUBSET Ips]
    /\ removed \in BOOLEAN

(* The two directions agree: an address resolves to a host that has it,    *)
(* whatever was shared and removed.  When a host is given again, in a      *)
(* second setting or by add_mapping, only the addresses it was not given   *)
(* again still resolve to it without being its own.                        *)
ResolvedHostHasIp ==
    \A i \in Ips : ResolveIp(i) # NoDomain =>
        i \in IpsOf(ResolveIp(i)) \cup former[ResolveIp(i)]

(* As long as nothing is removed, every address of a host resolves to some *)
(* host, though not to every one that has it, unless it still points to a  *)
(* host that was given again without it, and without any.                  *)
HostIpsResolve ==
    ~ removed =>
        \A d \in Domains : \A i \in IpsOf(d) :
            \/ ResolveIp(i) # NoDomain
            \/ /\ i \in former[ip_to_domains[i]]
               /\ IpsOf(ip_to_domains[i]) = {}

(* The two dictionaries of update_mappings, remove_domain and remove_ip    *)
(* agree in both directions.                                               *)
MappingsAgree == ResolvedHostHasIp /\ HostIpsResolve

================================================================================
