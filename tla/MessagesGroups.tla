--------------------------- MODULE MessagesGroups ---------------------------
(***************************************************************************)
(* Consumer groups, classic and KIP-848, and their committed offsets.      *)
(* One table per generated struct; a field lists what size, encode and     *)
(* decode all know of it.                                                  *)
(***************************************************************************)
EXTENDS Schema

OffsetCommitRequest_OffsetCommitRequestPartition == Struct(8, <<
    Field("partition_index", I32), Field("committed_offset", I64),
    Since(6, Default(-1, Field("committed_leader_epoch", I32))),
    OptionSome("committed_metadata", Str)>>)

OffsetCommitRequest_OffsetCommitRequestTopic == Struct(8, <<
    Until(9, Field("name", Str)), Since(10, Field("topic_id", Uuid)),
    Field("partitions", Arr(OffsetCommitRequest_OffsetCommitRequestPartition))>>)

OffsetCommitRequest == Struct(8, <<
    Field("group_id", Str), Default(-1, Field("generation_id_or_member_epoch", I32)),
    Field("member_id", Str), Since(7, NullSince(7, Option("group_instance_id", Str))),
    Until(4, Default(-1, Field("retention_time_ms", I64))),
    Field("topics", Arr(OffsetCommitRequest_OffsetCommitRequestTopic))>>)

OffsetCommitResponse_OffsetCommitResponsePartition == Struct(8, <<
    Field("partition_index", I32), Field("error_code", I16)>>)

OffsetCommitResponse_OffsetCommitResponseTopic == Struct(8, <<
    Until(9, Field("name", Str)), Since(10, Field("topic_id", Uuid)),
    Field("partitions", Arr(OffsetCommitResponse_OffsetCommitResponsePartition))>>)

OffsetCommitResponse == Struct(8, <<
    Since(3, Field("throttle_time_ms", I32)),
    Field("topics", Arr(OffsetCommitResponse_OffsetCommitResponseTopic))>>)

OffsetFetchRequest_OffsetFetchRequestTopic == Struct(6, <<
    Until(7, Field("name", Str)), Until(7, Field("partition_indexes", Arr(I32)))>>)

OffsetFetchRequest_OffsetFetchRequestTopics == Struct(6, <<
    Until(9, Since(8, Field("name", Str))), Since(10, Field("topic_id", Uuid)),
    Since(8, Field("partition_indexes", Arr(I32)))>>)

OffsetFetchRequest_OffsetFetchRequestGroup == Struct(6, <<
    Since(8, Field("group_id", Str)), Since(9, NullSince(9, Option("member_id", Str))),
    Since(9, Default(-1, Field("member_epoch", I32))),
    Since(8, NullSince(8, OptionSome("topics", Arr(OffsetFetchRequest_OffsetFetchRequestTopics))))>>)

OffsetFetchRequest == Struct(6, <<
    Until(7, Field("group_id", Str)),
    Until(7, NullUntil(7, NullSince(2, OptionSome("topics", Arr(OffsetFetchRequest_OffsetFetchRequestTopic))))),
    Since(8, Field("groups", Arr(OffsetFetchRequest_OffsetFetchRequestGroup))),
    Since(7, Field("require_stable", Bool))>>)

OffsetFetchResponse_OffsetFetchResponsePartition == Struct(6, <<
    Until(7, Field("partition_index", I32)), Until(7, Field("committed_offset", I64)),
    Until(7, Since(5, Default(-1, Field("committed_leader_epoch", I32)))),
    Until(7, NullUntil(7, OptionSome("metadata", Str))), Until(7, Field("error_code", I16))>>)

OffsetFetchResponse_OffsetFetchResponseTopic == Struct(6, <<
    Until(7, Field("name", Str)),
    Until(7, Field("partitions", Arr(OffsetFetchResponse_OffsetFetchResponsePartition)))>>)

OffsetFetchResponse_OffsetFetchResponsePartitions == Struct(6, <<
    Since(8, Field("partition_index", I32)), Since(8, Field("committed_offset", I64)),
    Since(8, Default(-1, Field("committed_leader_epoch", I32))),
    Since(8, NullSince(8, OptionSome("metadata", Str))), Since(8, Field("error_code", I16))>>)

OffsetFetchResponse_OffsetFetchResponseTopics == Struct(6, <<
    Until(9, Since(8, Field("name", Str))), Since(10, Field("topic_id", Uuid)),
    Since(8, Field("partitions", Arr(OffsetFetchResponse_OffsetFetchResponsePartitions)))>>)

OffsetFetchResponse_OffsetFetchResponseGroup == Struct(6, <<
    Since(8, Field("group_id", Str)),
    Since(8, Field("topics", Arr(OffsetFetchResponse_OffsetFetchResponseTopics))),
    Since(8, Field("error_code", I16))>>)

OffsetFetchResponse == Struct(6, <<
    Since(3, Field("throttle_time_ms", I32)),
    Until(7, Field("topics", Arr(OffsetFetchResponse_OffsetFetchResponseTopic))),
    Until(7, Since(2, Field("error_code", I16))),
    Since(8, Field("groups", Arr(OffsetFetchResponse_OffsetFetchResponseGroup)))>>)

JoinGroupRequest_JoinGroupRequestProtocol == Struct(6, <<
    Field("name", Str), Field("metadata", Bytes)>>)

JoinGroupRequest == Struct(6, <<
    Field("group_id", Str), Field("session_timeout_ms", I32),
    Since(1, Default(-1, Field("rebalance_timeout_ms", I32))), Field("member_id", Str),
    Since(5, NullSince(5, Option("group_instance_id", Str))), Field("protocol_type", Str),
    Field("protocols", Arr(JoinGroupRequest_JoinGroupRequestProtocol)),
    Since(8, NullSince(8, Option("reason", Str)))>>)

JoinGroupResponse_JoinGroupResponseMember == Struct(6, <<
    Field("member_id", Str), Since(5, NullSince(5, Option("group_instance_id", Str))),
    Field("metadata", Bytes)>>)

JoinGroupResponse == Struct(6, <<
    Since(2, Field("throttle_time_ms", I32)), Field("error_code", I16),
    Default(-1, Field("generation_id", I32)), Since(7, NullSince(7, Option("protocol_type", Str))),
    NullSince(7, OptionSome("protocol_name", Str)), Field("leader", Str),
    Since(9, Field("skip_assignment", Bool)), Field("member_id", Str),
    Field("members", Arr(JoinGroupResponse_JoinGroupResponseMember))>>)

HeartbeatRequest == Struct(4, <<
    Field("group_id", Str), Field("generation_id", I32), Field("member_id", Str),
    Since(3, NullSince(3, Option("group_instance_id", Str)))>>)

HeartbeatResponse == Struct(4, <<
    Since(1, Field("throttle_time_ms", I32)), Field("error_code", I16)>>)

LeaveGroupRequest_MemberIdentity == Struct(4, <<
    Since(3, Field("member_id", Str)), Since(3, NullSince(3, Option("group_instance_id", Str))),
    Since(5, NullSince(5, Option("reason", Str)))>>)

LeaveGroupRequest == Struct(4, <<
    Field("group_id", Str), Until(2, Field("member_id", Str)),
    Since(3, Field("members", Arr(LeaveGroupRequest_MemberIdentity)))>>)

LeaveGroupResponse_MemberResponse == Struct(4, <<
    Since(3, Field("member_id", Str)),
    Since(3, NullSince(3, OptionSome("group_instance_id", Str))),
    Since(3, Field("error_code", I16))>>)

LeaveGroupResponse == Struct(4, <<
    Since(1, Field("throttle_time_ms", I32)), Field("error_code", I16),
    Since(3, Field("members", Arr(LeaveGroupResponse_MemberResponse)))>>)

SyncGroupRequest_SyncGroupRequestAssignment == Struct(4, <<
    Field("member_id", Str), Field("assignment", Bytes)>>)

SyncGroupRequest == Struct(4, <<
    Field("group_id", Str), Field("generation_id", I32), Field("member_id", Str),
    Since(3, NullSince(3, Option("group_instance_id", Str))),
    Since(5, NullSince(5, Option("protocol_type", Str))),
    Since(5, NullSince(5, Option("protocol_name", Str))),
    Field("assignments", Arr(SyncGroupRequest_SyncGroupRequestAssignment))>>)

SyncGroupResponse == Struct(4, <<
    Since(1, Field("throttle_time_ms", I32)), Field("error_code", I16),
    Since(5, NullSince(5, Option("protocol_type", Str))),
    Since(5, NullSince(5, Option("protocol_name", Str))), Field("assignment", Bytes)>>)

DescribeGroupsRequest == Struct(5, <<
    Field("groups", Arr(Str)), Since(3, Field("include_authorized_operations", Bool))>>)

DescribeGroupsResponse_DescribedGroupMember == Struct(5, <<
    Field("member_id", Str), Since(4, NullSince(4, Option("group_instance_id", Str))),
    Field("client_id", Str), Field("client_host", Str), Field("member_metadata", Bytes),
    Field("member_assignment", Bytes)>>)

DescribeGroupsResponse_DescribedGroup == Struct(5, <<
    Field("error_code", I16), Since(6, NullSince(6, Option("error_message", Str))),
    Field("group_id", Str), Field("group_state", Str), Field("protocol_type", Str),
    Field("protocol_data", Str),
    Field("members", Arr(DescribeGroupsResponse_DescribedGroupMember)),
    Since(3, Default(MinI32, Field("authorized_operations", I32)))>>)

DescribeGroupsResponse == Struct(5, <<
    Since(1, Field("throttle_time_ms", I32)),
    Field("groups", Arr(DescribeGroupsResponse_DescribedGroup))>>)

ListGroupsRequest == Struct(3, <<
    Since(4, Field("states_filter", Arr(Str))), Since(5, Field("types_filter", Arr(Str)))>>)

ListGroupsResponse_ListedGroup == Struct(3, <<
    Field("group_id", Str), Field("protocol_type", Str), Since(4, Field("group_state", Str)),
    Since(5, Field("group_type", Str))>>)

ListGroupsResponse == Struct(3, <<
    Since(1, Field("throttle_time_ms", I32)), Field("error_code", I16),
    Field("groups", Arr(ListGroupsResponse_ListedGroup))>>)

DeleteGroupsRequest == Struct(2, <<Field("groups_names", Arr(Str))>>)

DeleteGroupsResponse_DeletableGroupResult == Struct(2, <<
    Field("group_id", Str), Field("error_code", I16)>>)

DeleteGroupsResponse == Struct(2, <<
    Field("throttle_time_ms", I32),
    Field("results", Arr(DeleteGroupsResponse_DeletableGroupResult))>>)

OffsetDeleteRequest_OffsetDeleteRequestPartition == Struct(Forever, <<
    Field("partition_index", I32)>>)

OffsetDeleteRequest_OffsetDeleteRequestTopic == Struct(Forever, <<
    Field("name", Str),
    Field("partitions", Arr(OffsetDeleteRequest_OffsetDeleteRequestPartition))>>)

OffsetDeleteRequest == Struct(Forever, <<
    Field("group_id", Str), Field("topics", Arr(OffsetDeleteRequest_OffsetDeleteRequestTopic))>>)

OffsetDeleteResponse_OffsetDeleteResponsePartition == Struct(Forever, <<
    Field("partition_index", I32), Field("error_code", I16)>>)

OffsetDeleteResponse_OffsetDeleteResponseTopic == Struct(Forever, <<
    Field("name", Str),
    Field("partitions", Arr(OffsetDeleteResponse_OffsetDeleteResponsePartition))>>)

OffsetDeleteResponse == Struct(Forever, <<
    Field("error_code", I16), Field("throttle_time_ms", I32),
    Field("topics", Arr(OffsetDeleteResponse_OffsetDeleteResponseTopic))>>)

ConsumerGroupHeartbeatRequest_TopicPartitions == Struct(0, <<
    Field("topic_id", Uuid), Field("partitions", Arr(I32))>>)

ConsumerGroupHeartbeatRequest == Struct(0, <<
    Field("group_id", Str), Field("member_id", Str), Field("member_epoch", I32),
    Option("instance_id", Str), Option("rack_id", Str),
    Default(-1, Field("rebalance_timeout_ms", I32)), Option("subscribed_topic_names", Arr(Str)),
    Since(1, NullSince(1, Option("subscribed_topic_regex", Str))), Option("server_assignor", Str),
    Option("topic_partitions", Arr(ConsumerGroupHeartbeatRequest_TopicPartitions))>>)

ConsumerGroupHeartbeatResponse_TopicPartitions == Struct(0, <<
    Field("topic_id", Uuid), Field("partitions", Arr(I32))>>)

ConsumerGroupHeartbeatResponse_Assignment == Struct(0, <<
    Field("topic_partitions", Arr(ConsumerGroupHeartbeatResponse_TopicPartitions))>>)

ConsumerGroupHeartbeatResponse == Struct(0, <<
    Field("throttle_time_ms", I32), Field("error_code", I16), Option("error_message", Str),
    Option("member_id", Str), Field("member_epoch", I32), Field("heartbeat_interval_ms", I32),
    Option("assignment", ConsumerGroupHeartbeatResponse_Assignment)>>)

ConsumerGroupDescribeRequest == Struct(0, <<
    Field("group_ids", Arr(Str)), Field("include_authorized_operations", Bool)>>)

ConsumerGroupDescribeResponse_TopicPartitions == Struct(0, <<
    Field("topic_id", Uuid), Field("topic_name", Str), Field("partitions", Arr(I32))>>)

ConsumerGroupDescribeResponse_Assignment == Struct(0, <<
    Field("topic_partitions", Arr(ConsumerGroupDescribeResponse_TopicPartitions))>>)

ConsumerGroupDescribeResponse_Member == Struct(0, <<
    Field("member_id", Str), Option("instance_id", Str), Option("rack_id", Str),
    Field("member_epoch", I32), Field("client_id", Str), Field("client_host", Str),
    Field("subscribed_topic_names", Arr(Str)), Option("subscribed_topic_regex", Str),
    Field("assignment", ConsumerGroupDescribeResponse_Assignment),
    Field("target_assignment", ConsumerGroupDescribeResponse_Assignment),
    Since(1, Default(-1, Field("member_type", I8)))>>)

ConsumerGroupDescribeResponse_DescribedGroup == Struct(0, <<
    Field("error_code", I16), Option("error_message", Str), Field("group_id", Str),
    Field("group_state", Str), Field("group_epoch", I32), Field("assignment_epoch", I32),
    Field("assignor_name", Str), Field("members", Arr(ConsumerGroupDescribeResponse_Member)),
    Default(MinI32, Field("authorized_operations", I32))>>)

ConsumerGroupDescribeResponse == Struct(0, <<
    Field("throttle_time_ms", I32),
    Field("groups", Arr(ConsumerGroupDescribeResponse_DescribedGroup))>>)

StreamsGroupHeartbeatRequest_KeyValue == Struct(0, <<Field("key", Str), Field("value", Str)>>)

StreamsGroupHeartbeatRequest_TopicInfo == Struct(0, <<
    Field("name", Str), Field("partitions", I32), Field("replication_factor", I16),
    Field("topic_configs", Arr(StreamsGroupHeartbeatRequest_KeyValue))>>)

StreamsGroupHeartbeatRequest_CopartitionGroup == Struct(0, <<
    Field("source_topics", Arr(I16)), Field("source_topic_regex", Arr(I16)),
    Field("repartition_source_topics", Arr(I16))>>)

StreamsGroupHeartbeatRequest_Subtopology == Struct(0, <<
    Field("subtopology_id", Str), Field("source_topics", Arr(Str)),
    Field("source_topic_regex", Arr(Str)),
    Field("state_changelog_topics", Arr(StreamsGroupHeartbeatRequest_TopicInfo)),
    Field("repartition_sink_topics", Arr(Str)),
    Field("repartition_source_topics", Arr(StreamsGroupHeartbeatRequest_TopicInfo)),
    Field("copartition_groups", Arr(StreamsGroupHeartbeatRequest_CopartitionGroup))>>)

StreamsGroupHeartbeatRequest_Topology == Struct(0, <<
    Field("epoch", I32), Field("subtopologies", Arr(StreamsGroupHeartbeatRequest_Subtopology))>>)

StreamsGroupHeartbeatRequest_TaskIds == Struct(0, <<
    Field("subtopology_id", Str), Field("partitions", Arr(I32))>>)

StreamsGroupHeartbeatRequest_Endpoint == Struct(0, <<Field("host", Str), Field("port", U16)>>)

StreamsGroupHeartbeatRequest_TaskOffset == Struct(0, <<
    Field("subtopology_id", Str), Field("partition", I32), Field("offset", I64)>>)

StreamsGroupHeartbeatRequest == Struct(0, <<
    Field("group_id", Str), Field("member_id", Str), Field("member_epoch", I32),
    Field("endpoint_information_epoch", I32), Option("instance_id", Str), Option("rack_id", Str),
    Default(-1, Field("rebalance_timeout_ms", I32)),
    Option("topology", StreamsGroupHeartbeatRequest_Topology),
    Option("active_tasks", Arr(StreamsGroupHeartbeatRequest_TaskIds)),
    Option("standby_tasks", Arr(StreamsGroupHeartbeatRequest_TaskIds)),
    Option("warmup_tasks", Arr(StreamsGroupHeartbeatRequest_TaskIds)), Option("process_id", Str),
    Option("user_endpoint", StreamsGroupHeartbeatRequest_Endpoint),
    Option("client_tags", Arr(StreamsGroupHeartbeatRequest_KeyValue)),
    Option("task_offsets", Arr(StreamsGroupHeartbeatRequest_TaskOffset)),
    Option("task_end_offsets", Arr(StreamsGroupHeartbeatRequest_TaskOffset)),
    Field("shutdown_application", Bool)>>)

StreamsGroupHeartbeatResponse_Status == Struct(0, <<
    Field("status_code", I8), Field("status_detail", Str)>>)

StreamsGroupHeartbeatResponse_TaskIds == Struct(0, <<
    Field("subtopology_id", Str), Field("partitions", Arr(I32))>>)

StreamsGroupHeartbeatResponse_Endpoint == Struct(0, <<Field("host", Str), Field("port", U16)>>)

StreamsGroupHeartbeatResponse_TopicPartition == Struct(0, <<
    Field("topic", Str), Field("partitions", Arr(I32))>>)

StreamsGroupHeartbeatResponse_EndpointToPartitions == Struct(0, <<
    Field("user_endpoint", StreamsGroupHeartbeatResponse_Endpoint),
    Field("active_partitions", Arr(StreamsGroupHeartbeatResponse_TopicPartition)),
    Field("standby_partitions", Arr(StreamsGroupHeartbeatResponse_TopicPartition))>>)

StreamsGroupHeartbeatResponse == Struct(0, <<
    Field("throttle_time_ms", I32), Field("error_code", I16), Option("error_message", Str),
    Field("member_id", Str), Field("member_epoch", I32), Field("heartbeat_interval_ms", I32),
    Field("acceptable_recovery_lag", I32), Field("task_offset_interval_ms", I32),
    OptionSome("status", Arr(StreamsGroupHeartbeatResponse_Status)),
    Option("active_tasks", Arr(StreamsGroupHeartbeatResponse_TaskIds)),
    Option("standby_tasks", Arr(StreamsGroupHeartbeatResponse_TaskIds)),
    Option("warmup_tasks", Arr(StreamsGroupHeartbeatResponse_TaskIds)),
    Field("endpoint_information_epoch", I32),
    Option("partitions_by_user_endpoint", Arr(StreamsGroupHeartbeatResponse_EndpointToPartitions))>>)

StreamsGroupDescribeRequest == Struct(0, <<
    Field("group_ids", Arr(Str)), Field("include_authorized_operations", Bool)>>)

StreamsGroupDescribeResponse_KeyValue == Struct(0, <<Field("key", Str), Field("value", Str)>>)

StreamsGroupDescribeResponse_TopicInfo == Struct(0, <<
    Field("name", Str), Field("partitions", I32), Field("replication_factor", I16),
    Field("topic_configs", Arr(StreamsGroupDescribeResponse_KeyValue))>>)

StreamsGroupDescribeResponse_Subtopology == Struct(0, <<
    Field("subtopology_id", Str), Field("source_topics", Arr(Str)),
    Field("repartition_sink_topics", Arr(Str)),
    Field("state_changelog_topics", Arr(StreamsGroupDescribeResponse_TopicInfo)),
    Field("repartition_source_topics", Arr(StreamsGroupDescribeResponse_TopicInfo))>>)

StreamsGroupDescribeResponse_Topology == Struct(0, <<
    Field("epoch", I32), Option("subtopologies", Arr(StreamsGroupDescribeResponse_Subtopology))>>)

StreamsGroupDescribeResponse_Endpoint == Struct(0, <<Field("host", Str), Field("port", U16)>>)

StreamsGroupDescribeResponse_TaskOffset == Struct(0, <<
    Field("subtopology_id", Str), Field("partition", I32), Field("offset", I64)>>)

StreamsGroupDescribeResponse_TaskIds == Struct(0, <<
    Field("subtopology_id", Str), Field("partitions", Arr(I32))>>)

StreamsGroupDescribeResponse_Assignment == Struct(0, <<
    Field("active_tasks", Arr(StreamsGroupDescribeResponse_TaskIds)),
    Field("standby_tasks", Arr(StreamsGroupDescribeResponse_TaskIds)),
    Field("warmup_tasks", Arr(StreamsGroupDescribeResponse_TaskIds))>>)

StreamsGroupDescribeResponse_Member == Struct(0, <<
    Field("member_id", Str), Field("member_epoch", I32), Option("instance_id", Str),
    Option("rack_id", Str), Field("client_id", Str), Field("client_host", Str),
    Field("topology_epoch", I32), Field("process_id", Str),
    Option("user_endpoint", StreamsGroupDescribeResponse_Endpoint),
    Field("client_tags", Arr(StreamsGroupDescribeResponse_KeyValue)),
    Field("task_offsets", Arr(StreamsGroupDescribeResponse_TaskOffset)),
    Field("task_end_offsets", Arr(StreamsGroupDescribeResponse_TaskOffset)),
    Field("assignment", StreamsGroupDescribeResponse_Assignment),
    Field("target_assignment", StreamsGroupDescribeResponse_Assignment),
    Field("is_classic", Bool)>>)

StreamsGroupDescribeResponse_DescribedGroup == Struct(0, <<
    Field("error_code", I16), Option("error_message", Str), Field("group_id", Str),
    Field("group_state", Str), Field("group_epoch", I32), Field("assignment_epoch", I32),
    Option("topology", StreamsGroupDescribeResponse_Topology),
    Field("members", Arr(StreamsGroupDescribeResponse_Member)),
    Default(MinI32, Field("authorized_operations", I32))>>)

StreamsGroupDescribeResponse == Struct(0, <<
    Field("throttle_time_ms", I32),
    Field("groups", Arr(StreamsGroupDescribeResponse_DescribedGroup))>>)

=============================================================================
