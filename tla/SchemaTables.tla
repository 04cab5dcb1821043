---------------------------- MODULE SchemaTables ----------------------------
(***************************************************************************)
(* The tables of DavNode as the migrations first create them, the same on  *)
(* the three engines but for the index of root collections, which MySQL    *)
(* cannot have; and the shapes later migrations give some of them.         *)
(***************************************************************************)
EXTENDS SchemaStatements

Aces(t, of) == Table(t, {Ref(of), Ref("principals")}, {})
Locks(t, of) == Table(t, {Ref(of), Ref("principals")}, {{"token"}})
Properties(t, of, id) == Table(t, {Ref(of)}, {{id, "namespace", "name"}})
Changes(t, of, id) == Table(t, {Ref(of)}, {{id, "seq"}})
Contents(t, of, id) == Table(t, {Owned(of)}, {{id}})

\* Tenants, principals and what belongs to them.
Tenants == Table("tenants", {}, {{"slug"}})
Principals == Table("principals", {Ref("tenants")}, {})
Users == Table("users", {Ref("principals"), Ref("tenants")},
               {{"principal_id"}, {"tenant_id", "username"}})
Groups == Table("groups", {Ref("principals"), Ref("tenants")},
                {{"principal_id"}, {"tenant_id", "name"}})
GroupMemberships == Table("group_memberships", {Ref("groups"), Ref("principals")},
                          {{"group_id", "member_principal_id"}})
Credentials ==
  WithKinds(Table("credentials", {Ref("users")}, {{"user_id", "type"}}), {"basic"})
SchedulingInboxItems ==
  Table("scheduling_inbox_items", {Ref("principals"), Ref("tenants")}, {})

\* Files.
Collections ==
  Table("collections", {Ref("collections"), Ref("principals"), Ref("tenants")},
        {{"tenant_id"}})
FileResources ==
  Table("file_resources", {Ref("collections"), Ref("principals"), Ref("tenants")},
        {{"collection_id", "name"}})
FileContents == Contents("file_contents", "file_resources", "file_resource_id")
CollectionProperties ==
  Properties("collection_properties", "collections", "collection_id")
FileProperties ==
  Properties("file_properties", "file_resources", "file_resource_id")
CollectionChanges == Changes("collection_changes", "collections", "collection_id")
CollectionAces == Aces("collection_aces", "collections")
FileAces == Aces("file_aces", "file_resources")
CollectionLocks == Locks("collection_locks", "collections")
FileLocks == Locks("file_locks", "file_resources")

\* Contacts.
Addressbooks == Table("addressbooks", {Ref("principals"), Ref("tenants")}, {})
AddressObjects ==
  Table("address_objects", {Ref("addressbooks"), Ref("principals"), Ref("tenants")},
        {{"addressbook_id", "uid"}})
AddressObjectContents ==
  Contents("address_object_contents", "address_objects", "address_object_id")
AddressObjectIndexes ==
  Table("address_object_indexes", {Owned("address_objects")}, {})
AddressObjectProperties ==
  Properties("address_object_properties", "address_objects", "address_object_id")
AddressbookProperties ==
  Properties("addressbook_properties", "addressbooks", "addressbook_id")
AddressObjectAces == Aces("address_object_aces", "address_objects")
AddressObjectLocks == Locks("address_object_locks", "address_objects")
AddressbookAces == Aces("addressbook_aces", "addressbooks")
AddressbookLocks == Locks("addressbook_locks", "addressbooks")
\* What a change of an address book names: a row's id, or a path segment.
ChangeNames == {"uuid", "file name"}
AddressbookChanges ==
  WithKinds(
    WithColumns(Changes("addressbook_changes", "addressbooks", "addressbook_id"),
                {"address_object_id"}), ChangeNames)

\* Calendars.
Calendars ==
  Table("calendars", {Ref("principals"), Ref("tenants")}, {{"ics_feed_token"}})
CalendarObjects ==
  WithKinds(
    Table("calendar_objects", {Ref("calendars"), Ref("principals"), Ref("tenants")},
          {{"calendar_id", "uid"}, {"calendar_id", "name"}}), {"VEVENT"})
CalendarObjectContents ==
  Contents("calendar_object_contents", "calendar_objects", "calendar_object_id")
CalendarObjectProperties ==
  Properties("calendar_object_properties", "calendar_objects", "calendar_object_id")
CalendarProperties == Properties("calendar_properties", "calendars", "calendar_id")
CalendarAces == Aces("calendar_aces", "calendars")
CalendarChanges == Changes("calendar_changes", "calendars", "calendar_id")
CalendarLocks == Locks("calendar_locks", "calendars")
CalendarObjectAces == Aces("calendar_object_aces", "calendar_objects")
CalendarObjectLocks == Locks("calendar_object_locks", "calendar_objects")

-----------------------------------------------------------------------------
(* Shapes of later migrations. *)

Named(table) == Requiring(WithColumns(table, {"name"}), {"name"})
NamedAddressObjects ==
  Named(WithUniques(AddressObjects, {{"addressbook_id", "name"}}))
NamedChanges == WithColumns(AddressbookChanges, {"name"})
NamedCalendars ==
  Named(WithUniques(Calendars,
    {{"ics_feed_token"}, {"tenant_id", "owner_principal_id", "name"}}))
UsersWithDefault ==
  WithColumns(WithRefs(Users, Users.shape.refs \cup {Ref("calendars")}),
              {"default_calendar_id"})

\* The tables AddTenantCascadeDeletes gives new references, in its order: the
\* collections and address books, what is attached to them, the calendars, and
\* the users with their files, groups and inboxes.
CollectionTables ==
  << Principals, Collections, CollectionAces, Addressbooks, NamedAddressObjects,
     AddressObjectAces >>
AttachedTables ==
  << CollectionLocks, AddressObjectLocks, AddressObjectProperties, AddressbookAces,
     CollectionChanges, NamedChanges, AddressbookLocks, AddressbookProperties >>
CalendarTables ==
  << NamedCalendars, CalendarAces, CalendarChanges, CalendarLocks, CalendarObjects,
     CalendarObjectAces, CalendarObjectLocks, CalendarObjectProperties,
     CalendarProperties, CollectionProperties >>
UserTables ==
  << UsersWithDefault, Credentials, FileResources, FileAces, FileLocks,
     FileProperties, Groups, GroupMemberships, SchedulingInboxItems >>

\* A user goes with the default calendar.
Cascading_Mutant(x) == WithRefs(x, {Owned(r.to) : r \in x.shape.refs})
\* Its new references: all rows go with what they belong to, but a user only
\* loses the default calendar.
Cascading(x) ==
  WithRefs(x, {IF x.name = "users" /\ r.to = "calendars" THEN Pointer(r.to)
               ELSE Owned(r.to) : r \in x.shape.refs})

DigestColumns == {"digest_ha1", "digest_realm", "oauth2_issuer", "oauth2_subject"}
CascadingCredentials == Cascading(Credentials)
WideCredentials == WithColumns(CascadingCredentials, DigestColumns)
DigestCredentials ==
  WithKinds(WithUniques(WideCredentials,
              {{"user_id", "type"}, {"oauth2_issuer", "oauth2_subject"}}),
            {"basic", "digest", "oauth2"})
TaskTypes == {"VTODO", "VJOURNAL"}
TaskObjects == WithKinds(Cascading(CalendarObjects), {"VEVENT"} \cup TaskTypes)
=============================================================================
