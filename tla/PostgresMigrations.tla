------------------------- MODULE PostgresMigrations -------------------------
(* The migrations for Postgres, one definition per file, in their order. *)
EXTENDS SchemaTables

InitialSchema ==
  Making(<<Tenants, Principals, Users, Credentials, Groups, GroupMemberships>>)
CreateCollections == Making(<<Collections>>)
CreateFileResources == Making(<<FileResources, FileContents>>)
CreateDeadProperties == Making(<<CollectionProperties, FileProperties>>)
CreateCollectionChanges == Making(<<CollectionChanges>>)
CreateAces == Making(<<CollectionAces, FileAces>>)
CreateLocks == Making(<<CollectionLocks, FileLocks>>)
CreateAddressbooks == Making(<<Addressbooks>>)
CreateAddressObjects == Making(<<AddressObjects, AddressObjectContents>>)
CreateAddressbookDeadProperties ==
  Making(<<AddressObjectProperties, AddressbookProperties>>)
\* The id of the changed object is a uuid here.
CreateAddressbookAcesLocksChanges ==
  Making(<<AddressObjectAces, AddressObjectLocks, AddressbookAces,
           WithKinds(AddressbookChanges, {"uuid"}), AddressbookLocks>>)
CreateAddressObjectIndex == Making(<<AddressObjectIndexes>>)
AddAddressObjectName ==
  Migration(<<DropUnique("address_objects", {"addressbook_id", "uid"}),
              AddRequiredColumn("address_objects", "name"),
              AddUnique("address_objects", {"addressbook_id", "name"})>>,
            <<DropUnique("address_objects", {"addressbook_id", "name"}),
              DropRequiredColumn("address_objects", "name"),
              AddUnique("address_objects", {"addressbook_id", "uid"})>>)
RenameAddressbookChangeToName ==
  Migration(<<Widen("addressbook_changes", {"file name"}),
              RenameColumn("addressbook_changes", "address_object_id", "name")>>,
            <<RenameColumn("addressbook_changes", "name", "address_object_id"),
              Narrow("addressbook_changes", {"file name"})>>)
CreateCalendars == Making(<<Calendars>>)
CreateCalendarObjects == Making(<<CalendarObjects, CalendarObjectContents>>)
CreateCalendarDeadProperties ==
  Making(<<CalendarObjectProperties, CalendarProperties>>)
CreateCalendarAcesLocksChanges ==
  Making(<<CalendarAces, CalendarChanges, CalendarLocks, CalendarObjectAces,
           CalendarObjectLocks>>)
AddCalendarName ==
  LET unique == {"tenant_id", "owner_principal_id", "name"}
  IN Migration(<<AddRequiredColumn("calendars", "name"),
                 AddUnique("calendars", unique)>>,
               <<DropUnique("calendars", unique),
                 DropRequiredColumn("calendars", "name")>>)
CreateSchedulingInboxItems == Making(<<SchedulingInboxItems>>)
AddUserDefaultCalendar ==
  Migration(<<AddColumn("users", "default_calendar_id"),
              AddKey("users", Ref("calendars"))>>,
            <<DropKey("users", Ref("calendars")),
              DropColumn("users", "default_calendar_id")>>)

\* AddTenantCascadeDeletes: all references are dropped, then all new ones added;
\* the revert goes backwards, again in two passes.
Loosened(tables) == EachRef(tables, DropKey)
Cascaded(tables) == EachRef(Each(tables, Cascading), AddKey)
LoosenedBack(tables) == EachRef(Each(Reverse(tables), Cascading), DropKey)
Restored(tables) == EachRef(Reverse(tables), AddKey)

LoosenCollectionTables == Loosened(CollectionTables)
LoosenAttachedTables == Loosened(AttachedTables)
LoosenCalendarTables == Loosened(CalendarTables)
LoosenUserTables == Loosened(UserTables)
CascadeCollectionTables == Cascaded(CollectionTables)
CascadeAttachedTables == Cascaded(AttachedTables)
CascadeCalendarTables == Cascaded(CalendarTables)
CascadeUserTables == Cascaded(UserTables)
LoosenUserCascades == LoosenedBack(UserTables)
LoosenCalendarCascades == LoosenedBack(CalendarTables)
LoosenAttachedCascades == LoosenedBack(AttachedTables)
LoosenCollectionCascades == LoosenedBack(CollectionTables)
RestoreUserTables == Restored(UserTables)
RestoreCalendarTables == Restored(CalendarTables)
RestoreAttachedTables == Restored(AttachedTables)
RestoreCollectionTables == Restored(CollectionTables)
AddTenantCascadeDeletes ==
  Migration(
    LoosenCollectionTables \o LoosenAttachedTables \o
    LoosenCalendarTables \o LoosenUserTables \o
    CascadeCollectionTables \o CascadeAttachedTables \o
    CascadeCalendarTables \o CascadeUserTables,
    LoosenUserCascades \o LoosenCalendarCascades \o
    LoosenAttachedCascades \o LoosenCollectionCascades \o
    RestoreUserTables \o RestoreCalendarTables \o
    RestoreAttachedTables \o RestoreCollectionTables)

\* The index of types is dropped while the enumeration changes.
AddDigestAndOauth2Credentials ==
  LET oauth2 == {"oauth2_issuer", "oauth2_subject"}
      type == {"user_id", "type"}
  IN Migration(<<AddColumn("credentials", "digest_ha1"),
                 AddColumn("credentials", "digest_realm"),
                 AddColumn("credentials", "oauth2_issuer"),
                 AddColumn("credentials", "oauth2_subject"),
                 DropUnique("credentials", type),
                 Widen("credentials", {"digest", "oauth2"}),
                 AddUnique("credentials", oauth2),
                 AddUnique("credentials", type)>>,
               <<DropUnique("credentials", type),
                 DropUnique("credentials", oauth2),
                 Narrow("credentials", {"digest", "oauth2"}),
                 AddUnique("credentials", type),
                 DropColumn("credentials", "oauth2_subject"),
                 DropColumn("credentials", "oauth2_issuer"),
                 DropColumn("credentials", "digest_realm"),
                 DropColumn("credentials", "digest_ha1")>>)
\* Only an enumeration changes.
AddTaskComponentTypes ==
  Migration(<<Widen("calendar_objects", TaskTypes)>>,
            <<DeleteRows("calendar_objects", TaskTypes),
              Narrow("calendar_objects", TaskTypes)>>)

PostgresMigrationList ==
  << InitialSchema, CreateCollections, CreateFileResources, CreateDeadProperties,
     CreateCollectionChanges, CreateAces, CreateLocks, CreateAddressbooks,
     CreateAddressObjects, CreateAddressbookDeadProperties,
     CreateAddressbookAcesLocksChanges, CreateAddressObjectIndex,
     AddAddressObjectName, RenameAddressbookChangeToName, CreateCalendars,
     CreateCalendarObjects, CreateCalendarDeadProperties,
     CreateCalendarAcesLocksChanges, AddCalendarName, CreateSchedulingInboxItems,
     AddUserDefaultCalendar, AddTenantCascadeDeletes,
     AddDigestAndOauth2Credentials, AddTaskComponentTypes >>
=============================================================================
