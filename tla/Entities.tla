------------------------------ MODULE Entities ------------------------------
(* The schema the entity classes declare: what the code that reads and     *)
(* writes rows relies on, one definition per class.                        *)
EXTENDS SchemaStatements

\* The relations many classes declare.
AceOf(t, of) == Table(t, {Owned(of), Owned("principals")}, {})
LockOf(t, of) == Table(t, {Owned(of), Owned("principals")}, {{"token"}})
PropertyOf(t, of, id) == Table(t, {Owned(of)}, {{id, "namespace", "name"}})
ChangeOf(t, of, id) == Table(t, {Owned(of)}, {{id, "seq"}})
ContentOf(t, of, id) == Table(t, {Owned(of)}, {{id}})
Naming(table) == Requiring(WithColumns(table, {"name"}), {"name"})
Belonging(others) == {Owned(o) : o \in others \cup {"principals", "tenants"}}

Tenant == Table("tenants", {}, {{"slug"}})
Principal == Table("principals", {Owned("tenants")}, {})
User ==
  WithColumns(Table("users", Belonging({}) \cup {Pointer("calendars")},
                    {{"principal_id"}, {"tenant_id", "username"}}),
              {"default_calendar_id"})
Group == Table("groups", Belonging({}), {{"principal_id"}, {"tenant_id", "name"}})
GroupMembership == Table("group_memberships", {Owned("groups"), Owned("principals")},
                         {{"group_id", "member_principal_id"}})
Credential ==
  WithKinds(
    WithColumns(Table("credentials", {Owned("users")},
                      {{"user_id", "type"}, {"oauth2_issuer", "oauth2_subject"}}),
                {"digest_ha1", "digest_realm", "oauth2_issuer", "oauth2_subject"}),
    {"basic", "digest", "oauth2"})
\* One root collection per tenant, where the engine has partial indexes.
Collection(engine) ==
  Table("collections", Belonging({"collections"}),
        IF engine = "mysql" THEN {} ELSE {{"tenant_id"}})
FileResource ==
  Table("file_resources", Belonging({"collections"}), {{"collection_id", "name"}})
FileContent == ContentOf("file_contents", "file_resources", "file_resource_id")
CollectionProperty ==
  PropertyOf("collection_properties", "collections", "collection_id")
FileProperty == PropertyOf("file_properties", "file_resources", "file_resource_id")
CollectionChange == ChangeOf("collection_changes", "collections", "collection_id")
CollectionAce == AceOf("collection_aces", "collections")
FileAce == AceOf("file_aces", "file_resources")
CollectionLock == LockOf("collection_locks", "collections")
FileLock == LockOf("file_locks", "file_resources")
AddressbookCollection == Table("addressbooks", Belonging({}), {})
AddressObject ==
  Naming(Table("address_objects", Belonging({"addressbooks"}),
               {{"addressbook_id", "name"}}))
AddressObjectContent ==
  ContentOf("address_object_contents", "address_objects", "address_object_id")
AddressbookProperty ==
  PropertyOf("addressbook_properties", "addressbooks", "addressbook_id")
AddressObjectProperty ==
  PropertyOf("address_object_properties", "address_objects", "address_object_id")
AddressbookAce == AceOf("addressbook_aces", "addressbooks")
AddressObjectAce == AceOf("address_object_aces", "address_objects")
AddressbookLock == LockOf("addressbook_locks", "addressbooks")
AddressObjectLock == LockOf("address_object_locks", "address_objects")
AddressbookChange ==
  WithKinds(
    WithColumns(ChangeOf("addressbook_changes", "addressbooks", "addressbook_id"),
                {"name"}), {"uuid", "file name"})
AddressObjectIndex ==
  Table("address_object_indexes", {Owned("address_objects")}, {})
CalendarCollection ==
  Naming(Table("calendars", Belonging({}),
               {{"ics_feed_token"}, {"tenant_id", "owner_principal_id", "name"}}))
CalendarObject ==
  WithKinds(Table("calendar_objects", Belonging({"calendars"}),
                  {{"calendar_id", "name"}, {"calendar_id", "uid"}}),
            {"VEVENT", "VTODO", "VJOURNAL"})
CalendarObjectContent ==
  ContentOf("calendar_object_contents", "calendar_objects", "calendar_object_id")
CalendarProperty == PropertyOf("calendar_properties", "calendars", "calendar_id")
CalendarObjectProperty ==
  PropertyOf("calendar_object_properties", "calendar_objects", "calendar_object_id")
CalendarAce == AceOf("calendar_aces", "calendars")
CalendarObjectAce == AceOf("calendar_object_aces", "calendar_objects")
CalendarLock == LockOf("calendar_locks", "calendars")
CalendarObjectLock == LockOf("calendar_object_locks", "calendar_objects")
CalendarChange == ChangeOf("calendar_changes", "calendars", "calendar_id")
SchedulingInboxItem == Table("scheduling_inbox_items", Belonging({}), {})

ALL_ENTITIES(engine) ==
  { Tenant, Principal, User, Group, GroupMembership, Credential,
    Collection(engine), FileResource, FileContent, CollectionProperty,
    FileProperty, CollectionChange, CollectionAce, FileAce, CollectionLock,
    FileLock, AddressbookCollection, AddressObject, AddressObjectContent,
    AddressbookProperty, AddressObjectProperty, AddressbookAce,
    AddressObjectAce, AddressbookLock, AddressObjectLock, AddressbookChange,
    AddressObjectIndex, CalendarCollection, CalendarObject,
    CalendarObjectContent, CalendarProperty, CalendarObjectProperty,
    CalendarAce, CalendarObjectAce, CalendarLock, CalendarObjectLock,
    CalendarChange, SchedulingInboxItem }

\* The database the entities stand for.
Declared(engine) ==
  LET entities == ALL_ENTITIES(engine)
  IN [t \in {e.name : e \in entities} |-> (CHOOSE e \in entities : e.name = t).shape]
=============================================================================
